---- MODULE Spec2Model ----
(***************************************************************************)
(* A verification model of the operator-learning benchmark toolkit:        *)
(*   - QuadraticIntegralDataset (src/src/Datasets/MaskIntegralDataset.py)  *)
(*   - the experiment log aggregator (src/plot_experiment.py)              *)
(*   - the evaluation drivers (src/plotting_scripts/1d.py,                 *)
(*     2d_diff_error_d.py, 2d_worst_exp.py)                                *)
(* Each component has its own specification over the shared variables; the *)
(* variables of the components a specification does not run stay idle.     *)
(***************************************************************************)
EXTENDS Integers, Sequences, FiniteSets, TLC

VARIABLES
    \* ---- QuadraticIntegralDataset ----
    ds_pc,          \* which method is about to run / has run
    input_ranges,   \* self.input_ranges: sequence of <<low, high>>
    info,           \* the info dict: [As, Bs, Cs], one coefficient per function
    n_samples,      \* argument of sample_inputs
    inputs,         \* argument of compute_outputs: inputs[f][s]
    counts,         \* current_samples of every range, in iteration order
    xs_cat,         \* xs after torch.cat, before the shuffle: xs_cat[f][k]
    indices,        \* torch.randperm(xs.shape[1])
    xs,             \* value returned by sample_inputs: xs[f][k]
    ys,             \* value returned by compute_outputs, in sixths: ys[f][s]
    ds_error,       \* the exception that ended the call, or "none"
    \* ---- experiment log aggregator (plot_experiment.py) ----
    agg_pc,         \* "alg", "ylim", "csv", "exported", "done" or "aborted"
    agg_ds,         \* position of `dataset` in datasts
    agg_alg,        \* position of `alg` in algs
    data,           \* the data dict of the current dataset: algorithm -> entry
    data_matrix,    \* the table built for plot.csv of the current dataset
    written,        \* files written so far: <<dataset, file name>>
    agg_dir,        \* history: the contents of the log directory read last
    agg_caught,     \* what the except block of the last algorithm printed, or "none"
    agg_error,      \* the uncaught exception that ended the run, or "none"
    \* ---- 2-D error/linearity driver (2d_diff_error_d.py) ----
    lin_pc,         \* "search", "fetched", "reported", "done" or "aborted"
    lin_dataset_type,      \* args.dataset_type
    lin_search_step,       \* iterations of the search loop completed
    found_valid_example,
    max_relative_loss,
    hardest_info,          \* hardest_info['function_indicies'], or -1 for None
    lin_index,      \* [hardest, offset1, offset2]: the three function indices
    lin_ys,         \* ground truth of the three instances, as computed
    lin_b2b,        \* matrix-method predictions of the three instances
    lin_deeponet,   \* operator-network predictions of the three instances
    lin_diff,       \* [gt, b2b, deeponet]: the three difference tensors
    lin_report,     \* [gt, b2b, deeponet]: the printed max and mean
    lin_plot_index, \* [new_index1, new_index2] of the plotting step
    lin_seen,       \* history: what the batches sampled so far contained
    lin_error,      \* the uncaught exception that ended the run, or "none"
    \* ---- 2-D worst-case exporter, evaluation block (2d_worst_exp.py) ----
    exp_pc,         \* "search", "computed", "offset", "predict", "bundled",
                    \* "saving", "plotting", "done" or "aborted"
    exp_dataset_type,      \* args.dataset_type
    exp_has_indices,       \* whether the dataset's info has 'function_indicies'
    exp_search_step,       \* iterations of the worst-case search completed
    b2b_loss,
    hardest_index,
    offset_index,
    found_offset,
    exp_batch,      \* info['function_indicies'] of the batch the offset loop sampled last
    exp_info,       \* info['function_indicies'] after the slice idx:idx+1
    exp_sample,     \* example_xs, example_ys, xs, ys: the instance of every row
    exp_seen,       \* history: the largest loss sampled and where it came first
    predictions,    \* the predictions dict
    exp_file,       \* predictions_output_101/predictions_seed_101.json
    exp_plot,       \* prediction_plots/predictions_<dataset_type>.png
    exp_printed,    \* the messages of the save and plot blocks, in order
    exp_error,      \* the uncaught exception that ended the run, or "none"
    \* ---- start-up of the three evaluation drivers ----
    drv_pc,         \* "parsed", "validated", "selected", ... or "aborted"
    drv_script,     \* "1d", "2d_diff" or "2d_worst"
    drv_seed,       \* args.seed
    drv_dataset_type,      \* args.dataset_type
    drv_listing,    \* [deeponet, b2b]: what os.listdir returned for each
    drv_subdirs,    \* [deeponet, b2b]: the sorted sub-directory lists
    drv_subdir,     \* [deeponet, b2b]: deeponet_subdir and b2b_subdir
    drv_present,    \* the checkpoint files found in the selected directories
    drv_counts,     \* [b2b, deeponet]: <<n_params, predict_n_params>> of each
    drv_effects,    \* what the process has touched so far, in order
    drv_error,      \* the uncaught exception that ended the run, or "none"
    \* ---- hole mask of plot_displacement_magnitude (plot_worst.py) ----
    hm_pc,          \* "grid" or "masked"
    hm_row,         \* row of the grid point looked at
    hm_col,         \* column of the grid point looked at
    hm_masked,      \* whether U is masked at [hm_row, hm_col]
    \* ---- load_and_plot_predictions (plot_worst.py) ----
    vis_pc,         \* the plot call about to be made, "done" or "aborted"
    vis_data,       \* [ys, b2b, deeponet]: the displacement vectors of sample 0
    vis_scale,      \* [vmin, vmax] of the error plots, once computed
    vis_plots,      \* the contour plots drawn so far, in order
    vis_error,      \* the uncaught exception that ended the run, or "none"
    \* ---- dataset downloader (download_data.py) ----
    dl_pc,          \* "makedirs", "next", "transfer", "done" or "aborted"
    dl_k,           \* position of the download in the script, 1..6
    dl_dirs,        \* the directories os.makedirs has created
    pbar,           \* the open progress bar, or none
    count,          \* bytes already reported to the bar
    desc,           \* label of the bar
    dl_transfer,    \* the running urlretrieve call: block size, sizes, next block_num
    dl_started,     \* history: the downloads started so far, in order
    dl_files,       \* the files urlretrieve has written, whole or in part
    dl_error,       \* the uncaught exception that ended the run, or "none"
    \* ---- two seeded runs of an evaluation driver ----
    run_args,       \* per run: [seed, checkpoint], the --seed option and the weights loaded
    run_pc,         \* per run: "start", "seeded", "datasets", "models", "search" or "done"
    generator,      \* per run: the state of torch's default generator
    run_drawn,      \* per run: every batch a dataset's sample() has returned, in order
    run_step,       \* per run: iterations of the search loop completed
    run_hardest,    \* per run: the retained hardest instance and its loss
    \* ---- 1-D comparison driver, search loop (1d.py) ----
    od_pc,          \* "search" or "done"
    od_search_step, \* iterations of the search loop completed
    od_b2b_loss,    \* b2b_loss
    od_hardest,     \* hardest_example_xs, hardest_example_ys, hardest_xs, hardest_ys, hardest_info
    od_losses,      \* history: the per-function losses of every batch sampled so far
    \* ---- nonlinear transformation map A ----
    a_pc,           \* "first", "hidden", "last", "built" or "idle"
    a_args,         \* n_layers, hidden_size, n_basis, whether a source model exists,
                    \* src_dataset.output_size[0]
    a_layer,        \* iterations of `for layer in range(n_layers - 2)` completed
    layers,         \* the list `layers` handed to torch.nn.Sequential
    \* ---- source model of the 2-D worst-case exporter ----
    sm_pc,          \* "construct", "load", "search", "offset", "predict", "done",
                    \* "aborted" or "idle"
    sm_dataset_type,       \* args.dataset_type
    src_model,      \* "unset", "None" or "FunctionEncoder"
    sm_touched,     \* the attributes of the source model read or called so far
    sm_sample,      \* info['function_indicies'] of the batch sampled last
    sm_rep,         \* rep: the expression it was computed by, and for which batch
    sm_search_step, \* iterations of the worst-case search completed
    sm_error        \* the uncaught exception that ended the run, or "none"

dsVars == <<ds_pc, input_ranges, info, n_samples, inputs, counts, xs_cat,
            indices, xs, ys, ds_error>>

aggVars == <<agg_pc, agg_ds, agg_alg, data, data_matrix, written, agg_dir,
             agg_caught, agg_error>>

linVars == <<lin_pc, lin_dataset_type, lin_search_step, found_valid_example,
             max_relative_loss, hardest_info, lin_index, lin_ys, lin_b2b,
             lin_deeponet, lin_diff, lin_report, lin_plot_index, lin_seen,
             lin_error>>

expVars == <<exp_pc, exp_dataset_type, exp_has_indices, exp_search_step,
             b2b_loss, hardest_index, offset_index, found_offset, exp_batch,
             exp_info, exp_sample, exp_seen, predictions, exp_file, exp_plot,
             exp_printed, exp_error>>

drvVars == <<drv_pc, drv_script, drv_seed, drv_dataset_type, drv_listing,
             drv_subdirs, drv_subdir, drv_present, drv_counts, drv_effects,
             drv_error>>

hmVars == <<hm_pc, hm_row, hm_col, hm_masked>>

visVars == <<vis_pc, vis_data, vis_scale, vis_plots, vis_error>>

dlVars == <<dl_pc, dl_k, dl_dirs, pbar, count, desc, dl_transfer, dl_started, dl_files, dl_error>>

runVars == <<run_args, run_pc, generator, run_drawn, run_step, run_hardest>>

odVars == <<od_pc, od_search_step, od_b2b_loss, od_hardest, od_losses>>

aVars == <<a_pc, a_args, a_layer, layers>>

smVars == <<sm_pc, sm_dataset_type, src_model, sm_touched, sm_sample, sm_rep, sm_search_step, sm_error>>

vars == <<dsVars, aggVars, linVars, expVars, drvVars, hmVars, visVars, dlVars, runVars, odVars, aVars, smVars>>

\* the variables of the other components, which a component's actions leave alone
notDsVars == <<aggVars, linVars, expVars, drvVars, hmVars, visVars, dlVars, runVars, odVars, aVars, smVars>>
notAggVars == <<dsVars, linVars, expVars, drvVars, hmVars, visVars, dlVars, runVars, odVars, aVars, smVars>>
notLinVars == <<dsVars, aggVars, expVars, drvVars, hmVars, visVars, dlVars, runVars, odVars, aVars, smVars>>
notExpVars == <<dsVars, aggVars, linVars, drvVars, hmVars, visVars, dlVars, runVars, odVars, aVars, smVars>>
notDrvVars == <<dsVars, aggVars, linVars, expVars, hmVars, visVars, dlVars, runVars, odVars, aVars, smVars>>
notHmVars == <<dsVars, aggVars, linVars, expVars, drvVars, visVars, dlVars, runVars, odVars, aVars, smVars>>
notVisVars == <<dsVars, aggVars, linVars, expVars, drvVars, hmVars, dlVars, runVars, odVars, aVars, smVars>>
notDlVars == <<dsVars, aggVars, linVars, expVars, drvVars, hmVars, visVars, runVars, odVars, aVars, smVars>>
notRunVars == <<dsVars, aggVars, linVars, expVars, drvVars, hmVars, visVars, dlVars, odVars, aVars, smVars>>
notOdVars == <<dsVars, aggVars, linVars, expVars, drvVars, hmVars, visVars, dlVars, runVars, aVars, smVars>>
notAVars == <<dsVars, aggVars, linVars, expVars, drvVars, hmVars, visVars, dlVars, runVars, odVars, smVars>>
notSmVars == <<dsVars, aggVars, linVars, expVars, drvVars, hmVars, visVars, dlVars, runVars, odVars, aVars>>

-----------------------------------------------------------------------------
(* General helpers *)

RECURSIVE SumSeq(_)
SumSeq(s) == IF s = <<>> THEN 0 ELSE Head(s) + SumSeq(Tail(s))

RECURSIVE Flatten(_)
Flatten(ss) == IF ss = <<>> THEN <<>> ELSE Head(ss) \o Flatten(Tail(ss))

PermsOf(n) == {p \in [1..n -> 1..n] : \A a, b \in 1..n : p[a] = p[b] => a = b}

Abs(v) == IF v < 0 THEN -v ELSE v

CountIn(s, P(_)) == Cardinality({k \in 1..Len(s) : P(s[k])})

-----------------------------------------------------------------------------
(* QuadraticIntegralDataset *)

\* Bounds of the dataset model.
NFunctions == 2      \* n_functions_per_sample: rows of every tensor
NPoints == 1         \* query points per function handed to compute_outputs
MaxSamples == 3      \* small n_samples values tried exhaustively
MaxRanges == 2       \* longest input_ranges list
FullPermLen == 3     \* up to this length every permutation is tried

\* The two default intervals of the constructor.
Intervals == {<<-10, 2>>, <<8, 10>>}
DefaultRanges == << <<-10, 2>>, <<8, 10>> >>

RangeLists == UNION {[1..k -> Intervals] : k \in 0..MaxRanges}

\* n_samples values: 0 (the empty request), the small ones, and the two of the
\* documented examples.
SampleCounts == (0..MaxSamples) \cup {100, 101}

\* Coefficient triples <<A, B, C>> and input values handed to compute_outputs.
CoefTriples == {<<1, 0, 0>>, <<0, 1, 0>>, <<0, 0, 1>>, <<-1, 1, 1>>}
XVals == {-2, 2, 3, 5}

InfoOf(triples) == [As |-> [f \in 1..Len(triples) |-> triples[f][1]],
                    Bs |-> [f \in 1..Len(triples) |-> triples[f][2]],
                    Cs |-> [f \in 1..Len(triples) |-> triples[f][3]]]

ZeroInfo == InfoOf([f \in 1..NFunctions |-> <<0, 0, 0>>])

\* torch.rand: the generator is a small full-period congruential generator; a
\* draw is its high bit, read as 0 or 1/2.  The seed is the generator state at
\* the call.
RandSeeds == 0..7
Lcg(s) == (5 * s + 3) % 8

RECURSIVE LcgIter(_, _)
LcgIter(s, t) == IF t = 0 THEN s ELSE LcgIter(Lcg(s), t - 1)

\* t-th draw (t = 0, 1, ...) of the stream started at seed, as a numerator over 2
RandDraw(seed, t) == LcgIter(seed, t % 8) \div 4

\* xs * (r[1] - r[0]) + r[0] for a draw of u/2
ScaleInto(r, u) == r[1] + (u * (r[2] - r[1])) \div 2

\* torch.randperm: every permutation of a short axis; the identity, the
\* reversal and a rotation of a long one.
RandPerms(n) ==
    IF n <= FullPermLen THEN PermsOf(n)
    ELSE {[k \in 1..n |-> k], [k \in 1..n |-> n + 1 - k], [k \in 1..n |-> (k % n) + 1]}

samples_per_range(n, n_ranges) == n \div n_ranges
remainder(n, n_ranges) == n % n_ranges

\* current_samples of range i (0-based, as enumerate gives it)
current_samples_OffByOne(i, n, n_ranges) ==
    samples_per_range(n, n_ranges) + (IF i <= remainder(n, n_ranges) THEN 1 ELSE 0)

current_samples(i, n, n_ranges) ==
    samples_per_range(n, n_ranges) + (IF i < remainder(n, n_ranges) THEN 1 ELSE 0)

CountsOf(n, ranges) ==
    [i \in 1..Len(ranges) |-> current_samples(i - 1, n, Len(ranges))]

\* the block torch.rand(...) * (r[1] - r[0]) + r[0] of one range, for function f;
\* base is the number of draws consumed before this block
RangeBlock(r, f, cnt, seed, base) ==
    [j \in 1..cnt |-> ScaleInto(r, RandDraw(seed, base + (f - 1) * cnt + (j - 1)))]

\* samples: one block per range with current_samples > 0, then torch.cat(dim=1)
CatRow(ranges, cs, f, seed) ==
    Flatten([i \in 1..Len(ranges) |->
                RangeBlock(ranges[i], f, cs[i], seed,
                           NFunctions * SumSeq(SubSeq(cs, 1, i - 1)))])

\* xs[:, indices]
Shuffle_PerRow(cat, perm) ==
    [f \in 1..Len(cat) |->
        [k \in 1..Len(perm) |-> cat[f][perm[((k + f - 2) % Len(perm)) + 1]]]]

Shuffle(cat, perm) ==
    [f \in 1..Len(cat) |-> [k \in 1..Len(perm) |-> cat[f][perm[k]]]]

SampleInputs ==
    /\ ds_pc = "sample_inputs"
    /\ IF Len(input_ranges) = 0
       THEN \* n_samples // n_ranges divides by zero
            /\ ds_error' = "ZeroDivisionError"
            /\ UNCHANGED <<counts, xs_cat, indices, xs>>
       ELSE IF n_samples = 0
       THEN \* no block is appended and torch.cat gets an empty list
            /\ ds_error' = "RuntimeError"
            /\ counts' = CountsOf(n_samples, input_ranges)
            /\ UNCHANGED <<xs_cat, indices, xs>>
       ELSE \E seed \in RandSeeds, perm \in RandPerms(n_samples) :
            LET cs == CountsOf(n_samples, input_ranges)
                cat == [f \in 1..Len(info.As) |-> CatRow(input_ranges, cs, f, seed)]
            IN /\ counts' = cs
               /\ xs_cat' = cat
               /\ indices' = perm
               /\ xs' = Shuffle(cat, perm)
               /\ ds_error' = "none"
    /\ ds_pc' = "sampled"
    /\ UNCHANGED <<input_ranges, info, n_samples, inputs, ys>>
    /\ UNCHANGED notDsVars

\* 6 * (1/3 * A * x^3 + 1/2 * B * x^2 + C * x): the output in sixths
Antiderivative6(A, B, C, x) == 2 * A * x * x * x + 3 * B * x * x + 6 * C * x

\* As.unsqueeze(1) broadcasts coefficient f over the inputs of function f
compute_outputs_Row1(inf, inp) ==
    [f \in 1..Len(inp) |->
        [s \in 1..Len(inp[f]) |->
            Antiderivative6(inf.As[1], inf.Bs[1], inf.Cs[1], inp[f][s])]]

compute_outputs(inf, inp) ==
    [f \in 1..Len(inp) |->
        [s \in 1..Len(inp[f]) |->
            Antiderivative6(inf.As[f], inf.Bs[f], inf.Cs[f], inp[f][s])]]

ComputeOutputs ==
    /\ ds_pc = "compute_outputs"
    /\ ys' = compute_outputs(info, inputs)
    /\ ds_pc' = "computed"
    /\ UNCHANGED <<input_ranges, info, n_samples, inputs, counts, xs_cat,
                   indices, xs, ds_error>>
    /\ UNCHANGED notDsVars

\* A dataset about to answer sample_inputs(info, n_samples)
SampleInit ==
    /\ ds_pc = "sample_inputs"
    /\ input_ranges \in RangeLists
    /\ n_samples \in SampleCounts
    /\ info = ZeroInfo
    /\ inputs = <<>>

\* A dataset about to answer compute_outputs(info, inputs)
OutputsInit ==
    /\ ds_pc = "compute_outputs"
    /\ input_ranges = DefaultRanges
    /\ n_samples = 0
    /\ info \in {InfoOf(t) : t \in [1..NFunctions -> CoefTriples]}
    /\ inputs \in [1..NFunctions -> [1..NPoints -> XVals]]

DatasetInit ==
    /\ SampleInit \/ OutputsInit
    /\ counts = <<>>
    /\ xs_cat = <<>>
    /\ indices = <<>>
    /\ xs = <<>>
    /\ ys = <<>>
    /\ ds_error = "none"

DatasetIdle ==
    /\ ds_pc = "idle"
    /\ input_ranges = DefaultRanges
    /\ n_samples = 0
    /\ info = ZeroInfo
    /\ inputs = <<>>
    /\ counts = <<>>
    /\ xs_cat = <<>>
    /\ indices = <<>>
    /\ xs = <<>>
    /\ ys = <<>>
    /\ ds_error = "none"

-----------------------------------------------------------------------------
(* Claims about QuadraticIntegralDataset, checked under SpecDataset *)

Cube(x) == x * x * x
Square(x) == x * x

\* the sample positions of row r whose value lies in the closed interval iv
InInterval(v, iv) == iv[1] <= v /\ v <= iv[2]
ValuesIn(row, iv) == Cardinality({k \in 1..Len(row) : InInterval(row[k], iv)})

\* the range (1-based) whose block holds pre-shuffle position p
BlockOf(p, cs) ==
    CHOOSE i \in 1..Len(cs) :
        SumSeq(SubSeq(cs, 1, i - 1)) < p /\ p <= SumSeq(SubSeq(cs, 1, i))

\* how many returned positions come from the block of range i
Received(i) == Cardinality({k \in 1..Len(indices) : BlockOf(indices[k], counts) = i})

Sampled == ds_pc = "sampled" /\ ds_error = "none"

\* C1: compute_outputs returns, for every function f and each of its inputs x,
\* y = As[f]/3 * x^3 + Bs[f]/2 * x^2 + Cs[f] * x (here 6*y, in sixths), with the
\* coefficients of f applied to the inputs of f only; (1,0,0,3) gives 9,
\* (0,1,0,2) gives 2 and (0,0,1,5) gives 5.
C1_ComputeOutputsClosedForm ==
    ds_pc = "computed" =>
        /\ Len(ys) = Len(inputs)
        /\ \A f \in 1..Len(inputs) :
              /\ Len(ys[f]) = Len(inputs[f])
              /\ \A s \in 1..Len(inputs[f]) :
                    LET x == inputs[f][s]
                        A == info.As[f]
                        B == info.Bs[f]
                        C == info.Cs[f]
                    IN /\ ys[f][s] = 2 * A * Cube(x) + 3 * B * Square(x) + 6 * C * x
                       /\ (<<A, B, C, x>> = <<1, 0, 0, 3>>) => ys[f][s] = 6 * 9
                       /\ (<<A, B, C, x>> = <<0, 1, 0, 2>>) => ys[f][s] = 6 * 2
                       /\ (<<A, B, C, x>> = <<0, 0, 1, 5>>) => ys[f][s] = 6 * 5

\* C1 witness: outputs were computed for two functions with different
\* coefficients, one of them the documented case A=1, B=0, C=0, x=3 -> 9.
C1_Witness ==
    /\ ds_pc = "computed"
    /\ info.As[1] = 1 /\ info.Bs[1] = 0 /\ info.Cs[1] = 0
    /\ inputs[1][1] = 3 /\ ys[1][1] = 54
    /\ info.Cs[2] = 1 /\ info.As[2] = 0 /\ inputs[2][1] = 5 /\ ys[2][1] = 30

\* C2 (as claimed): with n_samples = q * n_ranges + r, 0 < r < n_ranges, every
\* range gets q samples and the r extra ones go to the LAST r ranges; for the
\* default ranges and n_samples = 101, [-10,2] gets 50 and [8,10] gets 51.
C2_ExtraGoesToLastRanges ==
    (Sampled /\ Len(input_ranges) > 0) =>
        LET nr == Len(input_ranges)
            q == n_samples \div nr
            r == n_samples % nr
        IN /\ (0 < r /\ r < nr) =>
                \A i \in 1..nr : Received(i) = q + (IF i > nr - r THEN 1 ELSE 0)
           /\ (input_ranges = DefaultRanges /\ n_samples = 101) =>
                \A f \in 1..Len(xs) :
                    /\ ValuesIn(xs[f], <<-10, 2>>) = 50
                    /\ ValuesIn(xs[f], <<8, 10>>) = 51

\* what the claim promises of a call that returned
C3_Returned ==
    /\ ds_error = "none"
    /\ Len(xs) = Len(info.As)
    /\ \A f \in 1..Len(xs) :
          /\ Len(xs[f]) = n_samples
          /\ \A k \in 1..Len(xs[f]) :
                \E i \in 1..Len(input_ranges) : InInterval(xs[f][k], input_ranges[i])
    /\ \A i, j \in 1..Len(input_ranges) : Abs(Received(i) - Received(j)) <= 1
    /\ (n_samples % Len(input_ranges) = 0) =>
          \A i \in 1..Len(input_ranges) :
              Received(i) = n_samples \div Len(input_ranges)
    /\ (input_ranges = DefaultRanges /\ n_samples = 100) =>
          \A f \in 1..Len(xs) :
              /\ ValuesIn(xs[f], <<-10, 2>>) = 50
              /\ ValuesIn(xs[f], <<8, 10>>) = 50

\* C3 (as claimed): for every n_samples >= 1 and EVERY list of input ranges,
\* sample_inputs returns n_samples inputs per function, all inside the union of
\* the ranges, with per-range counts differing by at most one (equal when
\* n_ranges divides n_samples).
C3_EveryRangeList ==
    (ds_pc = "sampled" /\ n_samples >= 1) => C3_Returned

\* C3 (amended): the same for every NON-EMPTY list of input ranges.
C3_NonEmptyRangeList ==
    (ds_pc = "sampled" /\ n_samples >= 1 /\ Len(input_ranges) >= 1) => C3_Returned

\* C3 witness: the documented even split, 100 samples over the two default
\* ranges, 50 returned values in each.
C3_Witness ==
    /\ Sampled
    /\ input_ranges = DefaultRanges
    /\ n_samples = 100
    /\ ValuesIn(xs[1], <<-10, 2>>) = 50
    /\ ValuesIn(xs[1], <<8, 10>>) = 50

Occurrences(row, v) == Cardinality({k \in 1..Len(row) : row[k] = v})

\* C4: the shuffle is one permutation of the sample axis, shared by every
\* function: indices is a bijection of 1..n, output position k of every row is
\* pre-shuffle position indices[k] of that row, and every row keeps its
\* multiset of values.
C4_ShuffleIsSharedPermutation ==
    Sampled =>
        LET n == Len(indices)
        IN /\ \A k \in 1..n : indices[k] \in 1..n
           /\ \A a, b \in 1..n : indices[a] = indices[b] => a = b
           /\ Len(xs) = Len(xs_cat)
           /\ \A f \in 1..Len(xs) :
                 /\ Len(xs[f]) = n /\ Len(xs_cat[f]) = n
                 /\ \A k \in 1..n : xs[f][k] = xs_cat[f][indices[k]]
                 /\ \A k \in 1..n :
                       Occurrences(xs[f], xs_cat[f][k]) = Occurrences(xs_cat[f], xs_cat[f][k])

\* C4 witness: a shuffle that moved values in two rows that differ.
C4_Witness ==
    /\ Sampled
    /\ Len(xs) = 2
    /\ xs[1] # xs_cat[1]
    /\ xs[2] # xs_cat[2]
    /\ xs_cat[1] # xs_cat[2]
    /\ \E k \in 1..Len(indices) : indices[k] # k

-----------------------------------------------------------------------------
(* Experiment log aggregator: src/plot_experiment.py *)

datasts == <<"MountainCar", "QuadraticSin", "Derivative", "Integral", "Elastic", "Fluid">>
algs == <<"SVD_least_squares", "matrix_least_squares", "Eigen_least_squares", "deeponet">>

\* index read by the y-limit line: data["deeponet"]["q3"][15]
YLimIndex == 15

\* A seed's event log: whether it holds the tag test/mse, and its series.
SeedLog(tag, len, v) ==
    [has_tag |-> tag, steps |-> [k \in 1..len |-> k], values |-> [k \in 1..len |-> v + (k % 2)]]

LongLen == YLimIndex + 1
ShortLen == 2

\* A seed's event log whose first logged step is `first`
SeedLogFrom(first, len, v) ==
    [has_tag |-> TRUE, steps |-> [k \in 1..len |-> first + k - 1],
     values |-> [k \in 1..len |-> v + (k % 2)]]

\* The contents a log directory logdir/<dataset>/<alg> may have.
LogDirs ==
    { [exists |-> FALSE, seeds |-> <<>>],
      [exists |-> TRUE, seeds |-> <<>>],
      [exists |-> TRUE, seeds |-> <<SeedLog(TRUE, LongLen, 1), SeedLog(FALSE, 0, 0)>>],
      [exists |-> TRUE, seeds |-> <<SeedLog(TRUE, LongLen, 1), SeedLog(TRUE, ShortLen, 2)>>],
      [exists |-> TRUE,
       seeds |-> <<SeedLog(TRUE, LongLen, 3), SeedLog(TRUE, LongLen, 1), SeedLog(TRUE, LongLen, 2)>>],
      [exists |-> TRUE, seeds |-> <<SeedLogFrom(1, ShortLen, 5), SeedLogFrom(11, ShortLen, 2)>>],
      [exists |-> TRUE, seeds |-> <<SeedLog(TRUE, 1, 2), SeedLog(TRUE, 1, 4)>>] }

RECURSIVE InsertSorted(_, _)
InsertSorted(v, s) ==
    IF s = <<>> THEN <<v>>
    ELSE IF v <= Head(s) THEN <<v>> \o s
    ELSE <<Head(s)>> \o InsertSorted(v, Tail(s))

RECURSIVE SortAscending(_)
SortAscending(s) == IF s = <<>> THEN <<>> ELSE InsertSorted(Head(s), SortAscending(Tail(s)))

\* np.percentile(values, p), linear interpolation, times 4 (p is 25, 50 or 75)
Percentile4_Lower(values, p) ==
    LET v == SortAscending(values)
    IN 4 * v[(p * (Len(v) - 1)) \div 100 + 1]

Percentile4(values, p) ==
    LET v == SortAscending(values)
        n == Len(v)
        lo == (p * (n - 1)) \div 100
        frac4 == ((p * (n - 1)) % 100) \div 25
        hi == IF lo + 1 < n THEN lo + 1 ELSE lo
    IN 4 * v[lo + 1] + frac4 * (v[hi + 1] - v[lo + 1])

\* the seeds read before the first one whose log lacks the tag
ReadSeeds_All(seeds) == seeds

RECURSIVE ReadSeeds(_)
ReadSeeds(seeds) ==
    IF seeds = <<>> \/ ~Head(seeds).has_tag THEN <<>>
    ELSE <<Head(seeds)>> \o ReadSeeds(Tail(seeds))

NoStats == [raw_data_steps |-> <<>>, raw_data_values |-> <<>>, has_stats |-> FALSE,
            median |-> <<>>, q1 |-> <<>>, q3 |-> <<>>]

\* data[alg] after the try block of one algorithm whose directory is dir:
\* the entry is created first; scandir, read_tensorboard's assertion and
\* np.stack may each raise, and whatever was appended before stays.
TryAlgorithm(dir) ==
    IF ~dir.exists THEN NoStats
    ELSE LET read == ReadSeeds(dir.seeds)
             steps == [k \in 1..Len(read) |-> read[k].steps]
             vals == [k \in 1..Len(read) |-> read[k].values]
             raw == [NoStats EXCEPT !.raw_data_steps = steps, !.raw_data_values = vals]
             all_read == Len(read) = Len(dir.seeds)
             stackable == /\ Len(vals) > 0
                          /\ \A k \in 1..Len(vals) : Len(vals[k]) = Len(vals[1])
             col(t) == [k \in 1..Len(vals) |-> vals[k][t]]
         IN IF all_read /\ stackable
            THEN [raw EXCEPT !.has_stats = TRUE,
                             !.q1 = [t \in 1..Len(vals[1]) |-> Percentile4(col(t), 25)],
                             !.median = [t \in 1..Len(vals[1]) |-> Percentile4(col(t), 50)],
                             !.q3 = [t \in 1..Len(vals[1]) |-> Percentile4(col(t), 75)]]
            ELSE raw

AssertionMessage == "test/mse not found in event accumulator"

\* the exception the try block of one algorithm raises, or "none": scandir
\* on an absent directory, the assertion of read_tensorboard at the first
\* seed without the tag, np.stack on no series or on series of different
\* lengths
TryRaises(dir) ==
    IF ~dir.exists THEN "FileNotFoundError"
    ELSE IF Len(ReadSeeds(dir.seeds)) < Len(dir.seeds) THEN AssertionMessage
    ELSE IF \/ dir.seeds = <<>>
            \/ \E k \in 1..Len(dir.seeds) :
                  Len(dir.seeds[k].values) # Len(dir.seeds[1].values)
         THEN "ValueError"
    ELSE "none"

\* one iteration of `for alg in algs`: the try block and its except/continue
AggProcessAlgorithm ==
    /\ agg_pc = "alg"
    /\ \E dir \in LogDirs :
          /\ data' = [data EXCEPT ![algs[agg_alg]] = TryAlgorithm(dir)]
          /\ agg_dir' = dir
          /\ agg_caught' = TryRaises(dir)
    /\ IF agg_alg < Len(algs)
       THEN agg_alg' = agg_alg + 1 /\ agg_pc' = "alg"
       ELSE agg_alg' = agg_alg /\ agg_pc' = "ylim"
    /\ UNCHANGED <<agg_ds, data_matrix, written, agg_error>>
    /\ UNCHANGED notAggVars

\* what maxy = data["deeponet"]["q3"][15] raises, or "none"
YLimError(d) ==
    IF ~d["deeponet"].has_stats THEN "KeyError"
    ELSE IF Len(d["deeponet"].q3) <= YLimIndex THEN "IndexError"
    ELSE "none"

\* lines 67-72: the y-limit, the title, the legend and plot.png
AggYLimAndSave ==
    /\ agg_pc = "ylim"
    /\ IF YLimError(data) # "none"
       THEN /\ agg_error' = YLimError(data)
            /\ agg_pc' = "aborted"
            /\ UNCHANGED written
       ELSE /\ written' = written \cup {<<datasts[agg_ds], "plot.png">>}
            /\ agg_pc' = "csv"
            /\ UNCHANGED agg_error
    /\ UNCHANGED <<agg_ds, agg_alg, data, data_matrix, agg_dir, agg_caught>>
    /\ UNCHANGED notAggVars

\* the three columns of algorithm i are filled only if the assignment does not
\* raise (missing key, or a length numpy cannot broadcast to the rows)
Fillable_SameLength(entry, rows) ==
    entry.has_stats /\ Len(entry.median) = rows

Fillable(entry, rows) ==
    entry.has_stats /\ (Len(entry.median) = rows \/ Len(entry.median) = 1)

CellOf(col, t) == IF Len(col) = 1 THEN col[1] ELSE col[t]

BuildMatrix(d) ==
    LET last == d[algs[Len(algs)]]
        rows == Len(last.raw_data_steps[1])
    IN [t \in 1..rows |->
          [c \in 1..(3 * Len(algs) + 1) |->
              IF c = 1 THEN last.raw_data_steps[1][t]
              ELSE LET i == (c - 2) \div 3
                       e == d[algs[i + 1]]
                       k == (c - 2) % 3
                   IN IF ~Fillable(e, rows) THEN 0
                      ELSE IF k = 0 THEN CellOf(e.median, t)
                      ELSE IF k = 1 THEN CellOf(e.q1, t)
                      ELSE CellOf(e.q3, t)]]

\* lines 76-80: "step", then <alg>_median, <alg>_q1, <alg>_q3 per algorithm
RECURSIVE HeadersOf(_)
HeadersOf(roster) ==
    IF roster = <<>> THEN <<>>
    ELSE <<<<Head(roster), "median">>, <<Head(roster), "q1">>, <<Head(roster), "q3">>>>
         \o HeadersOf(Tail(roster))

col_headers == <<<<"step">>>> \o HeadersOf(algs)

EmptyData == [a \in {algs[i] : i \in 1..Len(algs)} |-> NoStats]

\* lines 74-94: the table and plot.csv
AggExportCsv ==
    /\ agg_pc = "csv"
    /\ IF data[algs[agg_alg]].raw_data_steps = <<>>
       THEN /\ agg_error' = "IndexError"
            /\ agg_pc' = "aborted"
            /\ UNCHANGED <<data_matrix, written>>
       ELSE /\ data_matrix' = BuildMatrix(data)
            /\ written' = written \cup {<<datasts[agg_ds], "plot.csv">>}
            /\ agg_pc' = IF agg_ds < Len(datasts) THEN "exported" ELSE "done"
            /\ UNCHANGED agg_error
    /\ UNCHANGED <<agg_ds, agg_alg, data, agg_dir, agg_caught>>
    /\ UNCHANGED notAggVars

\* the head of the next iteration of `for dataset in datasts` (lines 25-31):
\* data = {} and a new figure; the table of the previous dataset is not read
\* again before line 83 replaces it, and is dropped here
AggNextDataset ==
    /\ agg_pc = "exported"
    /\ agg_ds' = agg_ds + 1
    /\ agg_alg' = 1
    /\ data' = EmptyData
    /\ data_matrix' = <<>>
    /\ agg_dir' = [exists |-> FALSE, seeds |-> <<>>]
    /\ agg_caught' = "none"
    /\ agg_pc' = "alg"
    /\ UNCHANGED <<written, agg_error>>
    /\ UNCHANGED notAggVars

AggInit ==
    /\ agg_pc = "alg"
    /\ agg_ds = 1
    /\ agg_alg = 1
    /\ data = EmptyData
    /\ data_matrix = <<>>
    /\ written = {}
    /\ agg_dir = [exists |-> FALSE, seeds |-> <<>>]
    /\ agg_caught = "none"
    /\ agg_error = "none"

AggIdle ==
    /\ agg_pc = "idle"
    /\ agg_ds = 1
    /\ agg_alg = 1
    /\ data = EmptyData
    /\ data_matrix = <<>>
    /\ written = {}
    /\ agg_dir = [exists |-> FALSE, seeds |-> <<>>]
    /\ agg_caught = "none"
    /\ agg_error = "none"

-----------------------------------------------------------------------------
(* Claims about the aggregator, checked under SpecAggregator *)

Skipped(alg) == ~data[alg].has_stats

\* every algorithm other than algs[i] was read in full, with a series longer
\* than the index the y-limit reads
OthersWellFormed(i) ==
    \A j \in 1..Len(algs) :
        j # i => (data[algs[j]].has_stats /\ Len(data[algs[j]].q3) > YLimIndex)

\* C5 (as claimed): for every roster algorithm, deeponet included, whose log
\* directory is absent or whose logs are malformed while the others are well
\* formed, the algorithm is skipped and the run is not aborted (so plot.png
\* and plot.csv of that dataset get written and the later datasets processed).
C5_SkippedAlgorithmNeverAborts ==
    \A i \in 1..Len(algs) :
        (Skipped(algs[i]) /\ OthersWellFormed(i)) => agg_pc # "aborted"

\* a seed's event log in the directory lacks the tag test/mse
TagMissing(dir) == dir.exists /\ \E k \in 1..Len(dir.seeds) : ~dir.seeds[k].has_tag

\* the roster position of the algorithm whose directory was read last
ProcessedAlg == IF agg_pc = "alg" THEN agg_alg - 1 ELSE agg_alg

MissingTagStep ==
    (agg_pc = "alg" /\ TagMissing(agg_dir')) =>
        /\ agg_pc' \in {"alg", "ylim"}
        /\ agg_error' = "none"
        /\ written' = written

ValuesAt(entry, t) ==
    [k \in 1..Len(entry.raw_data_values) |-> entry.raw_data_values[k][t]]

Least(col) == CHOOSE v \in {col[k] : k \in 1..Len(col)} : \A k \in 1..Len(col) : v <= col[k]
Greatest(col) == CHOOSE v \in {col[k] : k \in 1..Len(col)} : \A k \in 1..Len(col) : col[k] <= v

\* four times the 25th, 50th and 75th percentiles of two or three values
Quartiles4(col) ==
    IF Len(col) = 2
    THEN <<3 * Least(col) + Greatest(col),
           2 * Least(col) + 2 * Greatest(col),
           Least(col) + 3 * Greatest(col)>>
    ELSE LET mid == col[1] + col[2] + col[3] - Least(col) - Greatest(col)
         IN  <<2 * Least(col) + 2 * mid, 4 * mid, 2 * mid + 2 * Greatest(col)>>

\* C23: for every algorithm with statistics and every position of the
\* series, q1, median and q3 are the 25th, 50th and 75th percentiles (linear
\* interpolation) of the seeds' values at that position, whatever step
\* numbers the seeds logged there; q1 <= median <= q3; values 1, 2, 3 give
\* 1.5, 2 and 2.5 (6, 8 and 10 in quarters).
C23_QuartilesByPosition ==
    \A i \in 1..Len(algs) :
        LET e == data[algs[i]]
        IN  e.has_stats =>
              /\ Len(e.raw_data_values) \in {2, 3}
              /\ Len(e.q1) = Len(e.raw_data_values[1])
              /\ Len(e.median) = Len(e.q1)
              /\ Len(e.q3) = Len(e.q1)
              /\ \A t \in 1..Len(e.median) :
                    /\ <<e.q1[t], e.median[t], e.q3[t]>> = Quartiles4(ValuesAt(e, t))
                    /\ e.q1[t] <= e.median[t]
                    /\ e.median[t] <= e.q3[t]
                    /\ ValuesAt(e, t) \in {<<1, 2, 3>>, <<3, 1, 2>>} =>
                          <<e.q1[t], e.median[t], e.q3[t]>> = <<6, 8, 10>>

\* C23 witness: three seeds with the values 3, 1, 2 at the second position
C23_Witness ==
    /\ data[algs[1]].has_stats
    /\ Len(data[algs[1]].median) >= 2
    /\ ValuesAt(data[algs[1]], 2) = <<3, 1, 2>>
    /\ data[algs[1]].q1[2] = 6
    /\ data[algs[1]].median[2] = 8
    /\ data[algs[1]].q3[2] = 10

\* two seeds that logged steps 1 and 11 at the first position are combined there
C23_StepsDiffer ==
    /\ data[algs[2]].has_stats
    /\ data[algs[2]].raw_data_steps[1][1] = 1
    /\ data[algs[2]].raw_data_steps[2][1] = 11
    /\ data[algs[2]].median[1] = 2 * 6 + 2 * 3

\* column c of the table, top to bottom
ColumnOf(matrix, c) == [t \in 1..Len(matrix) |-> matrix[t][c]]

Zeros(n) == [t \in 1..n |-> 0]

Constant(n, v) == [t \in 1..n |-> v]

\* the three columns of algorithm i in the table
ColumnsOf(matrix, i) ==
    <<ColumnOf(matrix, 3 * i - 1), ColumnOf(matrix, 3 * i), ColumnOf(matrix, 3 * i + 1)>>

TableRows == Len(data["deeponet"].raw_data_steps[1])

Finished == agg_pc \in {"exported", "done"}

\* the table has 13 columns headed step and median, q1, q3 per algorithm in
\* roster order, and its rows and step column are those of the first seed of
\* deeponet
TableShape ==
    /\ Len(col_headers) = 13
    /\ col_headers[1] = <<"step">>
    /\ \A i \in 1..Len(algs) :
          /\ col_headers[3 * i - 1] = <<algs[i], "median">>
          /\ col_headers[3 * i] = <<algs[i], "q1">>
          /\ col_headers[3 * i + 1] = <<algs[i], "q3">>
    /\ algs[Len(algs)] = "deeponet"
    /\ Len(data_matrix) = TableRows
    /\ \A t \in 1..Len(data_matrix) : Len(data_matrix[t]) = Len(col_headers)
    /\ ColumnOf(data_matrix, 1) = data["deeponet"].raw_data_steps[1]
    /\ <<datasts[agg_ds], "plot.csv">> \in written

\* as claimed: the columns of every algorithm that was skipped, or whose
\* series length differs from the row count, are zero
C30_MismatchedColumnsAreZero ==
    Finished =>
        /\ TableShape
        /\ \A i \in 1..Len(algs) :
              LET e == data[algs[i]]
              IN  (~e.has_stats \/ Len(e.median) # TableRows) =>
                      ColumnsOf(data_matrix, i) =
                          <<Zeros(TableRows), Zeros(TableRows), Zeros(TableRows)>>

\* C30: for every dataset the aggregator finishes, plot.csv has 13 columns
\* (step, then median, q1, q3 per algorithm in roster order), its rows and
\* step column come from the first seed of deeponet, an algorithm whose
\* series has that many rows fills its three columns, a series of one value
\* is repeated down its three columns, and the columns of a skipped algorithm
\* or of a series of any other length stay zero.
C30_CsvFrame ==
    Finished =>
        /\ TableShape
        /\ \A i \in 1..Len(algs) :
              LET e == data[algs[i]]
              IN  ColumnsOf(data_matrix, i) =
                    IF ~e.has_stats
                    THEN <<Zeros(TableRows), Zeros(TableRows), Zeros(TableRows)>>
                    ELSE IF Len(e.median) = TableRows
                    THEN <<e.median, e.q1, e.q3>>
                    ELSE IF Len(e.median) = 1
                    THEN <<Constant(TableRows, e.median[1]), Constant(TableRows, e.q1[1]),
                           Constant(TableRows, e.q3[1])>>
                    ELSE <<Zeros(TableRows), Zeros(TableRows), Zeros(TableRows)>>

\* C30 witness: a finished table with a skipped algorithm, a series shorter
\* than the table and a series of one value
C30_Witness ==
    /\ Finished
    /\ ~data[algs[1]].has_stats
    /\ data[algs[2]].has_stats
    /\ Len(data[algs[2]].median) \notin {1, TableRows}
    /\ data[algs[3]].has_stats
    /\ Len(data[algs[3]].median) = 1
    /\ ColumnOf(data_matrix, 8)[TableRows] = data[algs[3]].median[1]
    /\ ColumnOf(data_matrix, 5) = Zeros(TableRows)

-----------------------------------------------------------------------------
(* 2-D error/linearity driver: src/plotting_scripts/2d_diff_error_d.py,     *)
(* from the search loop on.                                                 *)
(*                                                                          *)
(* A normalized model output or ground-truth value is a pair <<a, b>> that  *)
(* stands for a + b * (mean / std); a denormalized value is a pair <<s, m>> *)
(* that stands for s * std + m * mean.  Sums, differences and integer       *)
(* multiples are exact on pairs.                                            *)

\* mean and std of denormalize, in units of 1e-11 (used to order values)
MeanU == 2836671
StdU == 4263603

\* y * std + mean
denormalize(y) == <<y[1], y[2] + 1>>

VAdd(u, v) == <<u[1] + v[1], u[2] + v[2]>>
VSub(u, v) == <<u[1] - v[1], u[2] - v[2]>>
VScale(c, v) == <<c * v[1], c * v[2]>>
VNum(v) == v[1] * StdU + v[2] * MeanU
\* torch.abs
VAbs(v) == IF VNum(v) < 0 THEN <<-v[1], -v[2]>> ELSE v
VZero == <<0, 0>>

\* tensors over the query points
TDenorm(t) == [p \in 1..Len(t) |-> denormalize(t[p])]
TAdd(t, u) == [p \in 1..Len(t) |-> VAdd(t[p], u[p])]
TScale(c, t) == [p \in 1..Len(t) |-> VScale(c, t[p])]
TAbsDiff(t, u) == [p \in 1..Len(t) |-> VAbs(VSub(t[p], u[p]))]

\* torch.max(diff)
TMax(t) == CHOOSE v \in {t[p] : p \in 1..Len(t)} : \A p \in 1..Len(t) : VNum(t[p]) <= VNum(v)

RECURSIVE TSum(_)
TSum(t) == IF t = <<>> THEN VZero ELSE VAdd(Head(t), TSum(Tail(t)))

\* torch.mean(diff): the sum and the number of entries it is divided by
TMean(t) == [sum |-> TSum(t), n |-> Len(t)]

\* Bounds of the search loop (the code runs 1000 steps).
LinSearchSteps == 2
LinBatchSize == 2

\* the index window of the search, and the offsets and weights of the checks
LowIndex == 100
HighIndex == 150
Offset1 == 50
Offset2 == 100
Weight1 == 10
Weight2 == 15
PlotDiff1 == 100
PlotDiff2 == 50
InitialLoss == -1000000
NegInf == -2000000

\* hardest_info = None
NoHardestInfo == -1

LinDatasetTypes == {"Elastic", "Heat", "LShaped"}

\* one function instance of a sampled batch: <<function index, mean absolute
\* error of the denormalized DeepONet prediction, largest absolute
\* denormalized displacement, mean absolute error of the matrix method>>
LinInstances ==
    { <<99, 4, 1, 1>>, <<151, 4, 1, 4>>,
      <<100, 2, 2, 4>>, <<100, 4, 2, 1>>,
      <<150, 2, 1, 1>>, <<150, 4, 1, 2>>, <<150, 2, 2, 4>> }
LinPoints == 1..2

\* <<value at i, value at the first fetched offset, value at the second>> for
\* one query point: the cases where a superposition law holds with one weight
\* binding, with the other, with both, and the unweighted sum.
LinTriples ==
    { << <<3, 1>>, <<1, 0>>, <<2, 0>> >>,
      << <<40, 24>>, <<1, 0>>, <<2, 0>> >>,
      << <<35, 24>>, <<1, 0>>, <<2, 0>> >>,
      << <<3, 0>>, <<1, 0>>, <<2, 0>> >> }

InstanceTensors(g) ==
    [hardest |-> [p \in LinPoints |-> g[p][1]],
     offset1 |-> [p \in LinPoints |-> g[p][2]],
     offset2 |-> [p \in LinPoints |-> g[p][3]]]

NoTensors == [hardest |-> <<>>, offset1 |-> <<>>, offset2 |-> <<>>]
NoIndex == [hardest |-> -1, offset1 |-> -1, offset2 |-> -1]
NoReport == [max |-> VZero, mean |-> [sum |-> VZero, n |-> 0]]

valid_indices_mask_LowerOnly(batch) ==
    [k \in 1..Len(batch) |-> batch[k][1] >= LowIndex]

valid_indices_mask(batch) ==
    [k \in 1..Len(batch) |-> batch[k][1] >= LowIndex /\ batch[k][1] <= HighIndex]

\* torch.mean(torch.abs(deeponet_y_hats_denorm - ys_denorm), dim=(1,2)) /
\* max_displacements, for one function instance
relative_loss_Matrix(instance) == instance[4] \div instance[3]

relative_loss(instance) == instance[2] \div instance[3]

\* relative_losses with the entries outside the window set to -inf
MaskedLosses(batch) ==
    [k \in 1..Len(batch) |->
        IF valid_indices_mask(batch)[k] THEN relative_loss(batch[k]) ELSE NegInf]

\* history of the search: the largest DeepONet relative loss any sampled
\* instance of the window had, and the function index of the first that had it
WorstAfter(seen, batch) ==
    LET inside == {k \in 1..Len(batch) : batch[k][1] \in 100..150}
        ratio(k) == batch[k][2] \div batch[k][3]
    IN  IF inside = {} THEN [worst |-> seen.worst, first |-> seen.first]
        ELSE LET at == CHOOSE k \in inside :
                          /\ \A j \in inside : ratio(j) <= ratio(k)
                          /\ \A j \in inside : j < k => ratio(j) < ratio(k)
             IN  IF ratio(at) <= seen.worst
                 THEN [worst |-> seen.worst, first |-> seen.first]
                 ELSE [worst |-> ratio(at), first |-> batch[at][1]]

\* torch.argmax: the first position of the largest entry
ArgMax(losses) ==
    CHOOSE k \in 1..Len(losses) :
        /\ \A j \in 1..Len(losses) : losses[j] <= losses[k]
        /\ \A j \in 1..(k - 1) : losses[j] < losses[k]

\* one iteration of the search loop; a batch is a sequence of instances
LinSearchStep ==
    /\ lin_pc = "search"
    /\ lin_search_step < LinSearchSteps
    /\ \E batch \in [1..LinBatchSize -> LinInstances] :
          /\ lin_seen' =
                [in_window |-> lin_seen.in_window
                      \/ \E k \in 1..Len(batch) : batch[k][1] \in 100..150,
                 outside |-> lin_seen.outside
                      \/ \E k \in 1..Len(batch) : batch[k][1] \notin 100..150,
                 worst |-> WorstAfter(lin_seen, batch).worst,
                 first |-> WorstAfter(lin_seen, batch).first]
          /\ IF \A k \in 1..Len(batch) : ~valid_indices_mask(batch)[k]
             THEN UNCHANGED <<found_valid_example, max_relative_loss, hardest_info>>
             ELSE LET losses == MaskedLosses(batch)
                      max_index == ArgMax(losses)
                  IN /\ found_valid_example' = TRUE
                     /\ IF losses[max_index] > max_relative_loss
                        THEN /\ hardest_info' = batch[max_index][1]
                             /\ max_relative_loss' = losses[max_index]
                        ELSE UNCHANGED <<max_relative_loss, hardest_info>>
    /\ lin_search_step' = lin_search_step + 1
    /\ UNCHANGED <<lin_pc, lin_dataset_type, lin_index, lin_ys, lin_b2b, lin_deeponet,
                   lin_diff, lin_report, lin_plot_index, lin_error>>
    /\ UNCHANGED notLinVars

\* the indices of the three instances the linearity check fetches
FetchIndex_FromOffset(i) ==
    [hardest |-> i - Offset1, offset1 |-> i - Offset1 - Offset1,
     offset2 |-> i - Offset1 - Offset2]

FetchIndex(i) == [hardest |-> i, offset1 |-> i - Offset1, offset2 |-> i - Offset2]

\* lines 285-313: the end of the search and the ground truth of instances
\* i, i-50 and i-100, read from the dataset
LinFetchInstances ==
    /\ lin_pc = "search"
    /\ lin_search_step = LinSearchSteps
    /\ IF ~found_valid_example
       THEN /\ lin_error' = "RuntimeError"
            /\ lin_pc' = "aborted"
            /\ UNCHANGED <<lin_index, lin_ys>>
       ELSE IF hardest_info = NoHardestInfo
       THEN /\ lin_error' = "TypeError"
            /\ lin_pc' = "aborted"
            /\ UNCHANGED <<lin_index, lin_ys>>
       ELSE /\ lin_index' = FetchIndex(hardest_info)
            /\ \E g \in [LinPoints -> LinTriples] : lin_ys' = InstanceTensors(g)
            /\ lin_pc' = "fetched"
            /\ UNCHANGED lin_error
    /\ UNCHANGED <<lin_dataset_type, lin_search_step, found_valid_example,
                   max_relative_loss, hardest_info, lin_b2b, lin_deeponet, lin_diff,
                   lin_report, lin_plot_index, lin_seen>>
    /\ UNCHANGED notLinVars

\* gt_sum = ys_offset1_denorm + ys_offset2_denorm
gt_sum_Weighted(y) ==
    TAdd(TScale(Weight1, TDenorm(y.offset1)), TScale(Weight2, TDenorm(y.offset2)))

gt_sum(y) == TAdd(TDenorm(y.offset1), TDenorm(y.offset2))

\* b2b_sum / deeponet_sum = 10 * offset1_denorm + 15 * offset2_denorm
model_sum(y) ==
    TAdd(TScale(Weight1, TDenorm(y.offset1)), TScale(Weight2, TDenorm(y.offset2)))

ReportOf(diff) == [max |-> TMax(diff), mean |-> TMean(diff)]

\* lines 315-367: the predictions of both models for the three instances and
\* the three printed checks; b2b_model["src"] is None for Heat
LinPredictAndReport ==
    /\ lin_pc = "fetched"
    /\ IF lin_dataset_type = "Heat"
       THEN /\ lin_error' = "AttributeError"
            /\ lin_pc' = "aborted"
            /\ UNCHANGED <<lin_b2b, lin_deeponet, lin_diff, lin_report>>
       ELSE \E gb, gd \in [LinPoints -> LinTriples] :
            LET b2b == InstanceTensors(gb)
                don == InstanceTensors(gd)
                diff == [gt |-> TAbsDiff(TDenorm(lin_ys.hardest), gt_sum(lin_ys)),
                         b2b |-> TAbsDiff(TDenorm(b2b.hardest), model_sum(b2b)),
                         deeponet |-> TAbsDiff(TDenorm(don.hardest), model_sum(don))]
            IN /\ lin_b2b' = b2b
               /\ lin_deeponet' = don
               /\ lin_diff' = diff
               /\ lin_report' = [gt |-> ReportOf(diff.gt), b2b |-> ReportOf(diff.b2b),
                                 deeponet |-> ReportOf(diff.deeponet)]
               /\ lin_pc' = "reported"
               /\ UNCHANGED lin_error
    /\ UNCHANGED <<lin_dataset_type, lin_search_step, found_valid_example,
                   max_relative_loss, hardest_info, lin_index, lin_ys, lin_plot_index,
                   lin_seen>>
    /\ UNCHANGED notLinVars

\* lines 369-426: the instances of the plot and the plot function dispatch
LinPlot ==
    /\ lin_pc = "reported"
    /\ lin_plot_index' = <<hardest_info - PlotDiff1, hardest_info - PlotDiff2>>
    /\ IF lin_dataset_type = "Elastic"
       THEN lin_pc' = "done" /\ UNCHANGED lin_error
       ELSE lin_pc' = "aborted" /\ lin_error' = "ValueError"
    /\ UNCHANGED <<lin_dataset_type, lin_search_step, found_valid_example,
                   max_relative_loss, hardest_info, lin_index, lin_ys, lin_b2b,
                   lin_deeponet, lin_diff, lin_report, lin_seen>>
    /\ UNCHANGED notLinVars

LinRest ==
    /\ lin_search_step = 0
    /\ found_valid_example = FALSE
    /\ max_relative_loss = InitialLoss
    /\ hardest_info = NoHardestInfo
    /\ lin_index = NoIndex
    /\ lin_ys = NoTensors
    /\ lin_b2b = NoTensors
    /\ lin_deeponet = NoTensors
    /\ lin_diff = [gt |-> <<>>, b2b |-> <<>>, deeponet |-> <<>>]
    /\ lin_report = [gt |-> NoReport, b2b |-> NoReport, deeponet |-> NoReport]
    /\ lin_plot_index = <<>>
    /\ lin_seen = [in_window |-> FALSE, outside |-> FALSE,
                   worst |-> InitialLoss, first |-> NoHardestInfo]
    /\ lin_error = "none"

\* the driver at the start of the evaluation block (line 244)
LinInit ==
    /\ lin_pc = "search"
    /\ lin_dataset_type \in LinDatasetTypes
    /\ LinRest

LinIdle ==
    /\ lin_pc = "idle"
    /\ lin_dataset_type = "Elastic"
    /\ LinRest

-----------------------------------------------------------------------------
(* Claims about the linearity checks, checked under SpecLinearity *)

\* the three checks have been printed
LinReported ==
    \/ lin_pc \in {"reported", "done"}
    \/ lin_pc = "aborted" /\ lin_error = "ValueError"

\* the tensor of the fetched instance whose function index is idx
TensorAt(t, idx) ==
    IF lin_index.hardest = idx THEN t.hardest
    ELSE IF lin_index.offset1 = idx THEN t.offset1
    ELSE IF lin_index.offset2 = idx THEN t.offset2
    ELSE <<>>

\* denormalized value of tensor family t at function index idx
DenormAt(t, idx) == TDenorm(TensorAt(t, idx))

ReportIsZero(r) == r.max = VZero /\ r.mean.sum = VZero /\ r.mean.n > 0

\* 10 * pred(i - 50) + 15 * pred(i - 100), on denormalized predictions
SumAsCoded(t, i) == TAdd(TScale(10, DenormAt(t, i - 50)), TScale(15, DenormAt(t, i - 100)))

\* 10 * pred(i - 100) + 15 * pred(i - 50), on denormalized predictions
SumAsClaimed(t, i) == TAdd(TScale(10, DenormAt(t, i - 100)), TScale(15, DenormAt(t, i - 50)))

ModelCheckIs(t, diff, report, sum) ==
    /\ diff = TAbsDiff(DenormAt(t, hardest_info), sum)
    /\ report = [max |-> TMax(diff), mean |-> [sum |-> TSum(diff), n |-> Len(diff)]]
    /\ (DenormAt(t, hardest_info) = sum) => ReportIsZero(report)

\* C6 (as claimed): the difference reported for the matrix method and for the
\* operator network is |pred(i) - (10 * pred(i-100) + 15 * pred(i-50))| on
\* denormalized predictions, i the hardest instance's function index, so it is
\* zero (max and mean) when the predictions satisfy that law exactly.
C6_WeightsAsClaimed ==
    LinReported =>
        /\ ModelCheckIs(lin_b2b, lin_diff.b2b, lin_report.b2b,
                        SumAsClaimed(lin_b2b, hardest_info))
        /\ ModelCheckIs(lin_deeponet, lin_diff.deeponet, lin_report.deeponet,
                        SumAsClaimed(lin_deeponet, hardest_info))

\* C6 (amended): the reported difference is
\* |pred(i) - (10 * pred(i-50) + 15 * pred(i-100))| on denormalized
\* predictions, and is zero (max and mean) when they satisfy that law exactly.
C6_WeightsAsCoded ==
    LinReported =>
        /\ ModelCheckIs(lin_b2b, lin_diff.b2b, lin_report.b2b,
                        SumAsCoded(lin_b2b, hardest_info))
        /\ ModelCheckIs(lin_deeponet, lin_diff.deeponet, lin_report.deeponet,
                        SumAsCoded(lin_deeponet, hardest_info))

\* C6 witness: both checks printed zero for predictions that satisfy the coded
\* law at every point, with different predictions at i-50 and i-100.
C6_Witness ==
    /\ LinReported
    /\ hardest_info = 150
    /\ DenormAt(lin_b2b, hardest_info) = SumAsCoded(lin_b2b, hardest_info)
    /\ DenormAt(lin_deeponet, hardest_info) = SumAsCoded(lin_deeponet, hardest_info)
    /\ DenormAt(lin_b2b, 100) # DenormAt(lin_b2b, 50)
    /\ ReportIsZero(lin_report.b2b)
    /\ ReportIsZero(lin_report.deeponet)

\* y(i-50) + y(i-100), each term denormalized separately
GroundTruthSum(i) == TAdd(DenormAt(lin_ys, i - 50), DenormAt(lin_ys, i - 100))

SearchLeft == lin_pc # "search"

\* the driver went on past the search loop
WentOn == lin_pc \in {"fetched", "reported", "done"} \/ lin_error \in {"AttributeError", "ValueError"}

\* C11: after the search loop either the driver goes on with a retained
\* instance whose function index is in [100,150], or no batch contained such
\* an index, nothing was retained and the driver stops with an error.
C11_InWindowOrError ==
    SearchLeft =>
        \/ WentOn /\ hardest_info \in 100..150 /\ lin_seen.in_window
        \/ /\ ~WentOn
           /\ ~lin_seen.in_window
           /\ hardest_info = -1
           /\ lin_error = "RuntimeError"

\* C11 witness: the driver went on with index 150, kept with the larger loss,
\* after batches that also held indices outside the window
C11_Witness ==
    /\ lin_pc = "fetched"
    /\ lin_seen.outside
    /\ hardest_info = 150
    /\ max_relative_loss = 2
    /\ lin_index.hardest = 150

\* the run is over
LinEnded == lin_pc \in {"done", "aborted"}

\* the search retained an instance, so the run got past line 286
LinRetained == found_valid_example /\ hardest_info # NoHardestInfo

ChecksPrinted ==
    /\ lin_report.gt # NoReport
    /\ lin_report.b2b # NoReport
    /\ lin_report.deeponet # NoReport

\* C25 (as claimed): the transformation plots are made only for Elastic; for
\* Heat and LShaped a run that retained an instance ends with an error raised
\* at the plot dispatch, after the three linearity results were printed.
C25_ErrorAtPlottingStep ==
    (LinEnded /\ LinRetained) =>
        IF lin_dataset_type = "Elastic"
        THEN lin_pc = "done" /\ lin_error = "none"
        ELSE /\ lin_pc = "aborted"
             /\ lin_error = "ValueError"
             /\ ChecksPrinted
             /\ lin_plot_index # <<>>

\* what the driver does: plots only for Elastic; LShaped ends at the plot
\* dispatch with the checks printed; Heat ends before any check is printed,
\* where the source model is first used
C25_ErrorWhereRaised ==
    (LinEnded /\ LinRetained) =>
        /\ lin_pc = "done" <=> lin_dataset_type = "Elastic"
        /\ lin_dataset_type = "LShaped" =>
              lin_error = "ValueError" /\ ChecksPrinted /\ lin_plot_index # <<>>
        /\ lin_dataset_type = "Heat" =>
              lin_error = "AttributeError" /\ ~ChecksPrinted /\ lin_plot_index = <<>>

\* a Heat run that retained index 150 and ended before the checks
C25_HeatEndsEarly ==
    /\ lin_dataset_type = "Heat"
    /\ lin_pc = "aborted"
    /\ hardest_info = 150
    /\ lin_index.hardest = 150
    /\ lin_report.gt = NoReport

\* C28: at every point of the search, and after it, the retained loss is
\* the largest DeepONet relative error (mean absolute error over largest
\* absolute displacement, both denormalized) of the instances sampled so far
\* with a function index in [100,150], and the retained instance is the first
\* that had it; the matrix method's error of an instance has no part in it.
C28_RankedByDeepONetOnly ==
    /\ max_relative_loss = lin_seen.worst
    /\ hardest_info = lin_seen.first
    /\ found_valid_example <=> lin_seen.in_window
    /\ found_valid_example => hardest_info \in 100..150

\* C28 witness: the search kept index 100 with DeepONet relative error 2
\* (mean absolute error 4 over displacement 2), after batches that also held
\* instances outside the window
C28_Witness ==
    /\ lin_pc = "fetched"
    /\ lin_seen.outside
    /\ hardest_info = 100
    /\ max_relative_loss = 2
    /\ lin_index.hardest = 100

\* the linearity check has fetched its three instances
CheckReached == lin_index # NoIndex

\* C29: whenever the linearity check is reached its instances exist: the
\* hardest index i is in [100,150], the first offset instance is i-50 in
\* [50,100] and the second is i-100 in [0,50]; and the plotting step derives
\* the same two indices again, new_index1 = i-100 and new_index2 = i-50, the
\* numbering being the reverse of the check's.
C29_OffsetsInRange ==
    /\ CheckReached =>
          /\ lin_index.hardest = hardest_info
          /\ lin_index.hardest \in 100..150
          /\ lin_index.offset1 = lin_index.hardest - 50
          /\ lin_index.offset1 \in 50..100
          /\ lin_index.offset2 = lin_index.hardest - 100
          /\ lin_index.offset2 \in 0..50
    /\ lin_plot_index # <<>> =>
          /\ CheckReached
          /\ lin_plot_index[1] = lin_index.offset2
          /\ lin_plot_index[2] = lin_index.offset1

\* C29 witness: a finished run whose check used the indices 100, 50 and 0
\* and whose plotting step derived 0 and 50
C29_Witness ==
    /\ lin_pc = "done"
    /\ lin_index = [hardest |-> 100, offset1 |-> 50, offset2 |-> 0]
    /\ lin_plot_index = <<0, 50>>

-----------------------------------------------------------------------------
(* 2-D worst-case exporter: the evaluation block of main()                  *)
(* (src/plotting_scripts/2d_worst_exp.py, lines 309-430)                    *)

\* number of function instances of the test set
NTestFunctions == 11
\* function instances per sampled batch
ExpBatchSize == 2
\* iterations of the worst-case search (trange(1000) in the source)
ExpSearchSteps == 2

MinusWorst == -9
InitialB2bLoss == -1000000
NoHardestIndex == -1

TestIdx == 0..(NTestFunctions - 1)

\* info['function_indicies'] of a batch holding index j at position p, the
\* other positions holding other indices of the test set
BatchWith(j, p) ==
    [q \in 1..ExpBatchSize |-> IF q = p THEN j ELSE (j + q) % NTestFunctions]

\* the batches the sampler is taken to draw from: every index of the test set
\* at every position, and every index repeated over the whole batch
Batches ==
    {BatchWith(j, p) : j \in TestIdx, p \in 1..ExpBatchSize}
        \cup {[q \in 1..ExpBatchSize |-> j] : j \in TestIdx}

\* per-function mean squared errors of a batch
ExpLossVals == {0, 1}
ExpLosses == [1..ExpBatchSize -> ExpLossVals]

ExpDatasetTypes == {"Heat", "LShaped"}

\* history of the search: the largest loss any sampled instance had, and the
\* function index of the instance that had it first
NothingSeen == [max |-> InitialB2bLoss, first |-> NoHardestIndex]

SeenAfter(seen, batch, losses) ==
    LET top == CHOOSE l \in {losses[k] : k \in 1..Len(losses)} :
                   \A k \in 1..Len(losses) : losses[k] <= l
        at == CHOOSE k \in 1..Len(losses) :
                   /\ losses[k] = top
                   /\ \A j \in 1..(k - 1) : losses[j] # top
    IN  IF top <= seen.max THEN seen ELSE [max |-> top, first |-> batch[at]]

\* losses[max_index] > b2b_loss (line 336)
improves_Always(loss, best) == TRUE

improves(loss, best) == loss > best

\* one iteration of the worst-case search (lines 319-338)
ExpSearchStep ==
    /\ exp_pc = "search"
    /\ exp_search_step < ExpSearchSteps
    /\ \E batch \in Batches, losses \in ExpLosses :
          LET max_index == ArgMax(losses)
              better == improves(losses[max_index], b2b_loss)
          IN  /\ IF better /\ ~exp_has_indices
                 THEN /\ exp_pc' = "aborted"
                      /\ exp_error' = "KeyError"
                      /\ UNCHANGED <<exp_search_step, b2b_loss, hardest_index>>
                 ELSE /\ exp_search_step' = exp_search_step + 1
                      /\ b2b_loss' = IF better THEN losses[max_index] ELSE b2b_loss
                      /\ hardest_index' = IF better THEN batch[max_index] ELSE hardest_index
                      /\ exp_pc' = IF exp_search_step + 1 = ExpSearchSteps
                                   THEN "computed" ELSE "search"
                      /\ UNCHANGED exp_error
              /\ exp_seen' = SeenAfter(exp_seen, batch, losses)
    /\ UNCHANGED <<exp_dataset_type, exp_has_indices, offset_index, found_offset,
                   exp_batch, exp_info, exp_sample, predictions, exp_file,
                   exp_plot, exp_printed>>
    /\ UNCHANGED notExpVars

\* offset_index = hardest_index + minus_worst; found_offset = False (341-345)
ExpComputeOffset ==
    /\ exp_pc = "computed"
    /\ offset_index' = hardest_index + MinusWorst
    /\ found_offset' = FALSE
    /\ exp_pc' = "offset"
    /\ UNCHANGED <<exp_dataset_type, exp_has_indices, exp_search_step, b2b_loss,
                   hardest_index, exp_batch, exp_info, exp_sample, exp_seen,
                   predictions, exp_file, exp_plot, exp_printed, exp_error>>
    /\ UNCHANGED notExpVars

\* offset_index in info['function_indicies']
offset_in_info_FirstOnly(function_indicies, k) == function_indicies[1] = k

offset_in_info(function_indicies, k) ==
    \E p \in 1..Len(function_indicies) : function_indicies[p] = k

\* (info['function_indicies'] == offset_index).nonzero(as_tuple=True)[0][0]
FirstMatch(function_indicies, k) ==
    CHOOSE p \in 1..Len(function_indicies) :
        /\ function_indicies[p] = k
        /\ \A q \in 1..(p - 1) : function_indicies[q] # k

\* a tensor with one row per function instance: what it holds, and the
\* function instance every row describes
Tensor(what, rows) == [what |-> what, rows |-> rows]

\* the four tensors of a sampled batch: row p of each describes the function
\* instance info['function_indicies'][p]
sample(batch) ==
    [example_xs |-> Tensor("example_xs", batch),
     example_ys |-> Tensor("example_ys", batch),
     xs |-> Tensor("xs", batch),
     ys |-> Tensor("ys", batch)]

\* tensor[idx:idx+1]
slice(tensor, idx) == [tensor EXCEPT !.rows = SubSeq(tensor.rows, idx, idx)]

\* one iteration of `while not found_offset` with the given batch (346-356)
ExpOffsetIteration(batch) ==
    /\ exp_pc = "offset"
    /\ ~found_offset
    /\ exp_batch' = batch
    /\ IF exp_has_indices /\ offset_in_info(batch, offset_index)
       THEN LET idx == FirstMatch(batch, offset_index)
            IN  /\ exp_sample' = [example_xs |-> slice(sample(batch).example_xs, idx),
                                  example_ys |-> slice(sample(batch).example_ys, idx),
                                  xs |-> slice(sample(batch).xs, idx),
                                  ys |-> slice(sample(batch).ys, idx)]
                /\ exp_info' = SubSeq(batch, idx, idx)
                /\ found_offset' = TRUE
                /\ exp_pc' = "predict"
       ELSE /\ exp_sample' = sample(batch)
            /\ UNCHANGED <<exp_info, found_offset, exp_pc>>
    /\ UNCHANGED <<exp_dataset_type, exp_has_indices, exp_search_step, b2b_loss,
                   hardest_index, offset_index, exp_seen, predictions, exp_file,
                   exp_plot, exp_printed, exp_error>>
    /\ UNCHANGED notExpVars

ExpOffsetSample == \E batch \in Batches : ExpOffsetIteration(batch)

\* an iteration whose sampled batch holds function index j
ExpOffsetSampleWith(j) ==
    \E batch \in Batches :
        /\ \E p \in 1..ExpBatchSize : batch[p] = j
        /\ ExpOffsetIteration(batch)

\* testing_combined_dataset.tgt_dataset.xs and .ys: row i describes function
\* instance i of the test set
tgt_dataset == [i \in TestIdx |-> i]

\* tgt_dataset.xs[function_indicies] and tgt_dataset.ys[function_indicies]
index_select(what, function_indicies) ==
    Tensor(what, [k \in 1..Len(function_indicies) |->
                     tgt_dataset[function_indicies[k]]])

\* a prediction has one row for every row of the tensors it is computed from
predict(what, from) == Tensor(what, from.rows)

NoPredictions == [none |-> TRUE]

\* the predictions dict (lines 391-407)
bundle_GroundtruthFromExamples(example_xs, example_ys, xs_, ys_, info_, hardest, offset) ==
    [b2b_predictions |-> predict("b2b_y_hats", xs_),
     deeponet_predictions |-> predict("deeponet_y_hats", example_xs),
     groundtruth |-> example_ys,
     input_data |-> [example_xs |-> example_xs, example_ys |-> example_ys,
                     xs |-> xs_, ys |-> ys_],
     additional_info |-> [function_indicies |-> info_],
     indices_info |-> [worst_case_index |-> hardest,
                       offset_index |-> offset,
                       offset_amount |-> MinusWorst]]

bundle(example_xs, example_ys, xs_, ys_, info_, hardest, offset) ==
    [b2b_predictions |-> predict("b2b_y_hats", xs_),
     deeponet_predictions |-> predict("deeponet_y_hats", example_xs),
     groundtruth |-> ys_,
     input_data |-> [example_xs |-> example_xs, example_ys |-> example_ys,
                     xs |-> xs_, ys |-> ys_],
     additional_info |-> [function_indicies |-> info_],
     indices_info |-> [worst_case_index |-> hardest,
                       offset_index |-> offset,
                       offset_amount |-> MinusWorst]]

\* the evaluation points of the Heat data set are read again from the full
\* grid of the sliced instance (359-366); the predictions are computed and
\* the predictions dict is built (372-407)
ExpPredict ==
    /\ exp_pc = "predict"
    /\ LET heat == exp_dataset_type = "Heat"
           xs_ == IF heat THEN index_select("xs", exp_info) ELSE exp_sample.xs
           ys_ == IF heat THEN index_select("ys", exp_info) ELSE exp_sample.ys
       IN  /\ exp_sample' = [exp_sample EXCEPT !.xs = xs_, !.ys = ys_]
           /\ predictions' = bundle(exp_sample.example_xs, exp_sample.example_ys,
                                    xs_, ys_, exp_info, hardest_index, offset_index)
    /\ exp_pc' = "bundled"
    /\ UNCHANGED <<exp_dataset_type, exp_has_indices, exp_search_step, b2b_loss,
                   hardest_index, offset_index, found_offset, exp_batch, exp_info,
                   exp_seen, exp_file, exp_plot, exp_printed, exp_error>>
    /\ UNCHANGED notExpVars

\* os.makedirs(predictions_dir, exist_ok=True) (line 411), outside any try
ExpMakeDirs ==
    /\ exp_pc = "bundled"
    /\ \E created \in BOOLEAN :
          IF created
          THEN /\ exp_pc' = "saving"
               /\ UNCHANGED exp_error
          ELSE /\ exp_pc' = "aborted"
               /\ exp_error' = "OSError"
    /\ UNCHANGED <<exp_dataset_type, exp_has_indices, exp_search_step, b2b_loss,
                   hardest_index, offset_index, found_offset, exp_batch, exp_info,
                   exp_sample, exp_seen, predictions, exp_file, exp_plot,
                   exp_printed>>
    /\ UNCHANGED notExpVars

NoFile == [none |-> TRUE]
\* the file after open(prediction_file, "w") succeeded and json.dump failed
TruncatedFile == [truncated |-> TRUE]

SaveOutcomes == {"saved", "open fails", "dump fails"}

\* what the with-block raises: open() an OSError, json.dump a TypeError or an
\* OSError after the file was truncated
SaveRaises(outcome) ==
    CASE outcome = "saved" -> "none"
      [] outcome = "open fails" -> "OSError"
      [] outcome = "dump fails" -> "TypeError"

\* `except Exception as e` (lines 419 and 427)
except_Exception_KeyErrorOnly(raised) == raised = "KeyError"

except_Exception(raised) ==
    raised \in {"OSError", "TypeError", "KeyError", "RuntimeError", "ValueError"}

SavedMessage == "Predictions saved to predictions_output_101/predictions_seed_101.json"
SaveFailedMessage == "Failed to save predictions"

\* the save block (lines 414-420)
ExpSave ==
    /\ exp_pc = "saving"
    /\ \E outcome \in SaveOutcomes :
          /\ exp_file' = CASE outcome = "saved" -> predictions
                           [] outcome = "open fails" -> exp_file
                           [] outcome = "dump fails" -> TruncatedFile
          /\ IF SaveRaises(outcome) = "none"
             THEN /\ exp_printed' = Append(exp_printed, SavedMessage)
                  /\ exp_pc' = "plotting"
                  /\ UNCHANGED exp_error
             ELSE IF except_Exception(SaveRaises(outcome))
             THEN /\ exp_printed' = Append(exp_printed, SaveFailedMessage)
                  /\ exp_pc' = "plotting"
                  /\ UNCHANGED exp_error
             ELSE /\ exp_pc' = "aborted"
                  /\ exp_error' = SaveRaises(outcome)
                  /\ UNCHANGED exp_printed
    /\ UNCHANGED <<exp_dataset_type, exp_has_indices, exp_search_step, b2b_loss,
                   hardest_index, offset_index, found_offset, exp_batch, exp_info,
                   exp_sample, exp_seen, predictions, exp_plot>>
    /\ UNCHANGED notExpVars

\* the keys plot_predictions reads (lines 85-88)
PlotReads(p) ==
    /\ {"b2b_predictions", "deeponet_predictions", "groundtruth", "input_data"}
           \subseteq DOMAIN p
    /\ "xs" \in DOMAIN p.input_data

StartPlotMessage == "Starting plotting process..."
PlotSavedMessage == "Plot saved successfully!"
PlotFailedMessage == "Error during plotting"

\* the plot block (lines 423-430); plot_predictions (80-138) reads the dict,
\* draws, saves the figure and shows it, and any of these steps can raise
ExpPlot ==
    /\ exp_pc = "plotting"
    /\ \E drawn \in BOOLEAN :
          LET raised == IF ~PlotReads(predictions) THEN "KeyError"
                        ELSE IF ~drawn THEN "RuntimeError" ELSE "none"
          IN  IF raised = "none"
              THEN /\ exp_plot' = TRUE
                   /\ exp_printed' = exp_printed \o <<StartPlotMessage, PlotSavedMessage>>
                   /\ exp_pc' = "done"
                   /\ UNCHANGED exp_error
              ELSE IF except_Exception(raised)
              THEN /\ exp_plot' \in BOOLEAN
                   /\ exp_printed' = exp_printed \o <<StartPlotMessage, PlotFailedMessage>>
                   /\ exp_pc' = "done"
                   /\ UNCHANGED exp_error
              ELSE /\ exp_plot' \in BOOLEAN
                   /\ exp_printed' = Append(exp_printed, StartPlotMessage)
                   /\ exp_pc' = "aborted"
                   /\ exp_error' = raised
    /\ UNCHANGED <<exp_dataset_type, exp_has_indices, exp_search_step, b2b_loss,
                   hardest_index, offset_index, found_offset, exp_batch, exp_info,
                   exp_sample, exp_seen, predictions, exp_file>>
    /\ UNCHANGED notExpVars

ExpRest ==
    /\ exp_search_step = 0
    /\ b2b_loss = InitialB2bLoss
    /\ hardest_index = NoHardestIndex
    /\ offset_index = NoHardestIndex
    /\ found_offset = FALSE
    /\ exp_batch = <<>>
    /\ exp_info = <<>>
    /\ exp_sample = sample(<<>>)
    /\ exp_seen = NothingSeen
    /\ predictions = NoPredictions
    /\ exp_file = NoFile
    /\ exp_plot = FALSE
    /\ exp_printed = <<>>
    /\ exp_error = "none"

\* the exporter at the start of the evaluation block (line 309)
ExpInit ==
    /\ exp_pc = "search"
    /\ exp_dataset_type \in ExpDatasetTypes
    /\ exp_has_indices \in BOOLEAN
    /\ ExpRest

ExpIdle ==
    /\ exp_pc = "idle"
    /\ exp_dataset_type = "LShaped"
    /\ exp_has_indices = TRUE
    /\ ExpRest

-----------------------------------------------------------------------------
(* Claims about the offset search, checked under FairSpecExporter *)

\* the offset loop is running with index k as its target
OffsetLoopRunning == exp_pc = "offset"

\* a step of the offset loop leaves it exactly when the batch it sampled
\* holds offset_index, and never by an error
OffsetLoopStep ==
    OffsetLoopRunning =>
        /\ exp_pc' \in {"offset", "predict"}
        /\ exp_error' = "none"
        /\ exp_pc' = "predict" <=>
              \E p \in 1..Len(exp_batch') : exp_batch'[p] = offset_index
        /\ exp_pc' = "predict" =>
              /\ found_offset'
              /\ exp_info' = <<offset_index>>

\* C8: the offset loop targets offset_index = worst-case index - 9; an
\* iteration ends the loop if and only if the batch it sampled holds
\* offset_index, and no iteration ends the run with an error; under fair
\* sampling the loop eventually ends when offset_index is an index of the
\* test set, and runs forever when it is not (worst-case index below 9).
C8_OffsetSearchTermination ==
    /\ [](exp_pc \in {"offset", "predict"} => offset_index = hardest_index - 9)
    /\ [][OffsetLoopStep]_vars
    /\ (OffsetLoopRunning /\ offset_index \in TestIdx) ~> (exp_pc = "predict")
    /\ []((OffsetLoopRunning /\ offset_index \notin TestIdx) => []OffsetLoopRunning)

\* C8 witness: the loop ended on a batch whose second entry is offset_index
C8_Witness ==
    /\ exp_pc = "predict"
    /\ found_offset
    /\ offset_index = hardest_index - 9
    /\ offset_index \in TestIdx
    /\ exp_batch[1] # offset_index
    /\ exp_batch[2] = offset_index

\* the loop is running towards an index below 0, which no batch holds
C8_NegativeTargetReached ==
    /\ OffsetLoopRunning
    /\ hardest_index < 9
    /\ offset_index < 0
    /\ exp_batch # <<>>

\* the export file holds a complete bundle
BundleWritten == "indices_info" \in DOMAIN exp_file

\* the tensors of a bundle
ExportedTensors(b) ==
    {b.b2b_predictions, b.deeponet_predictions, b.groundtruth,
     b.input_data.example_xs, b.input_data.example_ys,
     b.input_data.xs, b.input_data.ys}

\* C13: whenever a bundle is written, offset_index = worst_case_index +
\* offset_amount with offset_amount = -9, worst_case_index is the function
\* index of the instance that had the largest loss of all searched batches,
\* and every exported tensor and additional_info describe exactly one
\* function instance, the one with function index offset_index.
C13_BundleDescribesOffsetInstance ==
    BundleWritten =>
        LET ii == exp_file.indices_info
        IN  /\ ii.offset_amount = -9
            /\ ii.offset_index = ii.worst_case_index + ii.offset_amount
            /\ exp_seen.first \in TestIdx
            /\ exp_seen.max = b2b_loss
            /\ ii.worst_case_index = exp_seen.first
            /\ \A t \in ExportedTensors(exp_file) : t.rows = <<ii.offset_index>>
            /\ exp_file.additional_info.function_indicies = <<ii.offset_index>>

\* C13 witness: a Heat bundle for instance 1, nine below the worst case 10,
\* sliced from the second row of the batch that held it
C13_Witness ==
    /\ BundleWritten
    /\ exp_dataset_type = "Heat"
    /\ exp_file.indices_info.worst_case_index = 10
    /\ exp_file.indices_info.offset_index = 1
    /\ exp_batch[1] # 1
    /\ exp_batch[2] = 1
    /\ exp_file.input_data.xs.rows = <<1>>

\* the save block and the plot block end without an uncaught exception, a
\* save that left no complete bundle prints the failure message and goes on
\* to the plot block, and a plot that failed prints its failure message
SaveAndPlotStep ==
    /\ exp_pc = "saving" =>
          /\ exp_pc' = "plotting"
          /\ exp_error' = "none"
          /\ exp_file' # predictions =>
                exp_printed' = Append(exp_printed, SaveFailedMessage)
    /\ exp_pc = "plotting" =>
          /\ exp_pc' = "done"
          /\ exp_error' = "none"
          /\ exp_printed'[Len(exp_printed')] # PlotSavedMessage =>
                exp_printed'[Len(exp_printed')] = PlotFailedMessage

\* C14: a failure to write the bundle is caught and reported by a printed
\* message and the plot block still runs; a plotting failure is caught too;
\* neither ends the run with an error.
C14_SaveAndPlotFailuresCaught ==
    /\ [][SaveAndPlotStep]_vars
    /\ [](exp_pc = "done" =>
            /\ exp_error = "none"
            /\ \E k \in 1..Len(exp_printed) : exp_printed[k] = StartPlotMessage)

\* C14 witness: the save failed, the plot block ran and failed, the run ended
\* without an error
C14_Witness ==
    /\ exp_pc = "done"
    /\ exp_error = "none"
    /\ exp_file = TruncatedFile
    /\ exp_printed = <<SaveFailedMessage, StartPlotMessage, PlotFailedMessage>>

\* the keys load_and_plot_predictions reads (plot_worst.py, lines 121-124)
VisualizerReads(data_) ==
    /\ {"input_data", "b2b_predictions", "deeponet_predictions"} \subseteq DOMAIN data_
    /\ {"xs", "ys"} \subseteq DOMAIN data_.input_data

\* C15: every bundle written has exactly the six top-level keys, input_data
\* the four tensors, indices_info the three indices, groundtruth equals
\* input_data.ys, and every key the visualizer reads is present.
C15_BundleSchema ==
    BundleWritten =>
        /\ DOMAIN exp_file = {"b2b_predictions", "deeponet_predictions",
                              "groundtruth", "input_data", "additional_info",
                              "indices_info"}
        /\ DOMAIN exp_file.input_data = {"example_xs", "example_ys", "xs", "ys"}
        /\ DOMAIN exp_file.indices_info =
               {"worst_case_index", "offset_index", "offset_amount"}
        /\ exp_file.groundtruth = exp_file.input_data.ys
        /\ VisualizerReads(exp_file)

\* C15 witness: a bundle was written, and plotted from, for the L-shaped data
C15_Witness ==
    /\ BundleWritten
    /\ exp_pc = "done"
    /\ exp_dataset_type = "LShaped"
    /\ exp_plot
    /\ exp_file.groundtruth.what = "ys"

-----------------------------------------------------------------------------
(* Start-up of the three evaluation drivers: argument validation, checkpoint *)
(* directory selection, dataset and model construction, checkpoint loading  *)
(* (src/plotting_scripts/1d.py, 2d_diff_error_d.py, 2d_worst_exp.py)        *)

\* most entries a checkpoint directory holds
MaxEntries == 3

MinSeed == 1
MaxSeed == 10

DrvScripts == {"1d", "2d_diff", "2d_worst"}
DrvSeeds == {MinSeed - 1, MinSeed, MinSeed + 1, MaxSeed, MaxSeed + 1}
DrvDatasetTypes == {"Derivative", "Elastic", "Heat", "LShaped", "MountainCar"}

\* the dataset types each script's second assertion accepts
SupportedTypes(script) ==
    IF script = "1d" THEN {"Derivative", "Integral", "Darcy"}
    ELSE {"Elastic", "Heat", "LShaped"}

\* 1 <= args.seed <= 10
SeedInRange_FromZero(seed) == 0 <= seed /\ seed <= MaxSeed

SeedInRange(seed) == MinSeed <= seed /\ seed <= MaxSeed

SeedMessage == "AssertionError: Seed must be between 1 and 10."

DatasetTypeMessage(script) ==
    IF script = "1d"
    THEN "AssertionError: Only Derivative, Integral, and Darcy datasets are supported for this script."
    ELSE "AssertionError: Only Elastic, Heat, and LShaped are supported."

\* the two assertions after parse_args; the seed is checked first
DrvValidate ==
    /\ drv_pc = "parsed"
    /\ IF ~SeedInRange(drv_seed)
       THEN /\ drv_pc' = "aborted"
            /\ drv_error' = SeedMessage
       ELSE IF drv_dataset_type \notin SupportedTypes(drv_script)
       THEN /\ drv_pc' = "aborted"
            /\ drv_error' = DatasetTypeMessage(drv_script)
       ELSE /\ drv_pc' = "validated"
            /\ UNCHANGED drv_error
    /\ UNCHANGED <<drv_script, drv_seed, drv_dataset_type, drv_listing,
                   drv_subdirs, drv_subdir, drv_present, drv_counts, drv_effects>>
    /\ UNCHANGED notDrvVars

\* A directory entry is [name, isdir]. A name written in the format
\* %Y-%m-%d_%H-%M-%S is modelled by its <<day, hour>> fields; any other name
\* by a sequence of another length.
TimestampNames == {<<1, 2>>, <<2, 1>>, <<2, 3>>}
EntryUniverse ==
    {[name |-> n, isdir |-> TRUE] : n \in TimestampNames}
        \cup {[name |-> <<1, 1>>, isdir |-> FALSE], [name |-> <<7>>, isdir |-> TRUE]}

WellFormedName(name) == Len(name) = 2

\* datetime.strptime(name, "%Y-%m-%d_%H-%M-%S"), in hours
strptime(name) == name[1] * 24 + name[2]

\* what os.listdir can return for a directory holding at most MaxEntries
\* entries: its entries in any order
Listings ==
    UNION {{l \in [1..k -> EntryUniverse] : \A a, b \in 1..k : l[a] = l[b] => a = b}
              : k \in 0..MaxEntries}

\* a directory that does not exist: os.listdir raises FileNotFoundError
DirAbsent == <<[name |-> <<>>, isdir |-> FALSE]>>
ListdirResults == Listings \cup {DirAbsent}

Range(f) == {f[x] : x \in DOMAIN f}

\* [... for subdir in os.listdir(d) if os.path.isdir(...)]
RECURSIVE FilterDirs(_)
FilterDirs(listing) ==
    IF listing = <<>> THEN <<>>
    ELSE IF Head(listing).isdir THEN <<Head(listing)>> \o FilterDirs(Tail(listing))
    ELSE FilterDirs(Tail(listing))

\* list.sort(key=strptime of the name): stable, ascending
RECURSIVE InsertByTimestamp(_, _)
InsertByTimestamp(e, sorted) ==
    IF sorted = <<>> THEN <<e>>
    ELSE IF strptime(e.name) <= strptime(Head(sorted).name) THEN <<e>> \o sorted
    ELSE <<Head(sorted)>> \o InsertByTimestamp(e, Tail(sorted))

SortByTimestamp_ListingOrder(subdirs) == subdirs

RECURSIVE SortByTimestamp(_)
SortByTimestamp(subdirs) ==
    IF subdirs = <<>> THEN <<>>
    ELSE InsertByTimestamp(Head(subdirs), SortByTimestamp(Tail(subdirs)))

\* the sort raises ValueError when a name does not match the format
SortFails(subdirs) == \E k \in 1..Len(subdirs) : ~WellFormedName(subdirs[k].name)

\* Python's seq[i]: i counts from 0, a negative i counts from the end
PyIndexFails(seq, i) == i >= Len(seq) \/ i < -Len(seq)
PyIndex(seq, i) == IF i >= 0 THEN seq[i + 1] ELSE seq[Len(seq) + i + 1]

NoEntry == [name |-> <<>>, isdir |-> FALSE]
NoSubdirs == [deeponet |-> <<>>, b2b |-> <<>>]
NoSubdir == [deeponet |-> NoEntry, b2b |-> NoEntry]
NoListing == [deeponet |-> {}, b2b |-> {}]

\* how the selection block ends for the two listings: the first failure in
\* source order, or "none"
SelectError(ld, lb, seed) ==
    IF ld = DirAbsent \/ lb = DirAbsent THEN "FileNotFoundError"
    ELSE IF SortFails(FilterDirs(ld)) \/ SortFails(FilterDirs(lb)) THEN "ValueError"
    ELSE IF PyIndexFails(FilterDirs(ld), seed - 1) \/ PyIndexFails(FilterDirs(lb), seed - 1)
         THEN "IndexError"
    ELSE "none"

\* the effects of the selection block up to its end or its failure
SelectEffects(ld, lb) ==
    IF ld = DirAbsent THEN <<"listdir deeponet">>
    ELSE <<"listdir deeponet", "listdir matrix_least_squares">>

\* the selection block: list both directories, keep the sub-directories,
\* sort both lists by timestamp, take element seed-1 of each
DrvSelectCheckpointDirs ==
    /\ drv_pc = "validated"
    /\ \E ld \in ListdirResults, lb \in ListdirResults :
          LET err == SelectError(ld, lb, drv_seed)
              sd == SortByTimestamp(FilterDirs(ld))
              sb == SortByTimestamp(FilterDirs(lb))
          IN  /\ drv_effects' = drv_effects \o SelectEffects(ld, lb)
              /\ drv_error' = err
              /\ drv_listing' = [deeponet |-> IF ld = DirAbsent THEN {} ELSE Range(ld),
                                 b2b |-> IF ld = DirAbsent \/ lb = DirAbsent
                                         THEN {} ELSE Range(lb)]
              /\ IF err = "none"
                 THEN /\ drv_subdirs' = [deeponet |-> sd, b2b |-> sb]
                      /\ drv_subdir' = [deeponet |-> PyIndex(sd, drv_seed - 1),
                                        b2b |-> PyIndex(sb, drv_seed - 1)]
                      /\ drv_pc' = "selected"
                 ELSE /\ drv_subdirs' =
                            IF err = "IndexError" THEN [deeponet |-> sd, b2b |-> sb]
                            ELSE NoSubdirs
                      /\ drv_subdir' = NoSubdir
                      /\ drv_pc' = "aborted"
    /\ UNCHANGED <<drv_script, drv_seed, drv_dataset_type, drv_present, drv_counts>>
    /\ UNCHANGED notDrvVars

\* the three checkpoint files the exporter looks for, in the order it does
PreflightFiles == <<"src_model.pth", "tgt_model.pth", "A.pth">>
PreflightEffects == <<"exists src_model.pth", "exists tgt_model.pth", "exists A.pth">>
PreflightMessages ==
    <<"FileNotFoundError: Source model not found at: src_model.pth",
      "FileNotFoundError: Target model not found at: tgt_model.pth",
      "FileNotFoundError: A model not found at: A.pth">>

\* the files of a matrix-method checkpoint and of an operator-network one
CheckpointFiles == {"src_model.pth", "tgt_model.pth", "A.pth", "model.pth"}

\* position of the first file of `files` that is not present, or 0
FirstMissing_Reversed(files, present) ==
    IF \A k \in 1..Len(files) : files[k] \in present THEN 0
    ELSE CHOOSE k \in 1..Len(files) :
            /\ files[k] \notin present
            /\ \A j \in (k + 1)..Len(files) : files[j] \in present

FirstMissing(files, present) ==
    IF \A k \in 1..Len(files) : files[k] \in present THEN 0
    ELSE CHOOSE k \in 1..Len(files) :
            /\ files[k] \notin present
            /\ \A j \in 1..(k - 1) : files[j] \in present

\* 2d_worst_exp.py only: os.path.exists on the three matrix-method files
DrvPreflight ==
    /\ drv_pc = "selected"
    /\ drv_script = "2d_worst"
    /\ \E present \in SUBSET CheckpointFiles :
          LET first == FirstMissing(PreflightFiles, present)
          IN  /\ drv_present' = present
              /\ drv_effects' = drv_effects \o
                    SubSeq(PreflightEffects, 1,
                           IF first = 0 THEN Len(PreflightFiles) ELSE first)
              /\ drv_pc' = IF first = 0 THEN "checked" ELSE "aborted"
              /\ drv_error' = IF first = 0 THEN "none" ELSE PreflightMessages[first]
    /\ UNCHANGED <<drv_script, drv_seed, drv_dataset_type, drv_listing,
                   drv_subdirs, drv_subdir, drv_counts>>
    /\ UNCHANGED notDrvVars

\* torch.manual_seed(args.seed), then the training and the testing dataset
DrvBuildDatasets ==
    /\ \/ drv_pc = "selected" /\ drv_script # "2d_worst"
       \/ drv_pc = "checked"
    /\ drv_effects' = drv_effects \o <<"manual_seed", "get_dataset", "get_dataset">>
    /\ drv_pc' = "datasets"
    /\ UNCHANGED <<drv_script, drv_seed, drv_dataset_type, drv_listing,
                   drv_subdirs, drv_subdir, drv_present, drv_counts, drv_error>>
    /\ UNCHANGED notDrvVars

\* parameter counts: get_num_parameters and predict_number_params are library
\* code outside this repository, so each is any of a few values
ParamCounts == {7, 8}
NoCounts == [b2b |-> <<>>, deeponet |-> <<>>]
CountMessage == "AssertionError: Number of parameters is not consistent"

\* assert n_params == predict_n_params
CountsAgree_Always(pair) == TRUE

CountsAgree(pair) == pair[1] = pair[2]

\* model construction: the matrix model and its assertion, then the operator
\* network and its assertion
DrvBuildModels ==
    /\ drv_pc = "datasets"
    /\ \E b \in ParamCounts \X ParamCounts, d \in ParamCounts \X ParamCounts :
          IF ~CountsAgree(b)
          THEN /\ drv_counts' = [b2b |-> b, deeponet |-> <<>>]
               /\ drv_effects' = drv_effects \o <<"build b2b_model", "assert b2b_model">>
               /\ drv_pc' = "aborted"
               /\ drv_error' = CountMessage
          ELSE /\ drv_counts' = [b2b |-> b, deeponet |-> d]
               /\ drv_effects' = drv_effects \o
                     <<"build b2b_model", "assert b2b_model",
                       "build deeponet_model", "assert deeponet_model">>
               /\ drv_pc' = IF CountsAgree(d) THEN "models" ELSE "aborted"
               /\ drv_error' = IF CountsAgree(d) THEN "none" ELSE CountMessage
    /\ UNCHANGED <<drv_script, drv_seed, drv_dataset_type, drv_listing,
                   drv_subdirs, drv_subdir, drv_present>>
    /\ UNCHANGED notDrvVars

\* the files torch.load reads, in order; the 2-D drivers build no source
\* model for Heat and skip its file
LoadFiles(script, dataset_type) ==
    IF script # "1d" /\ dataset_type = "Heat"
    THEN <<"tgt_model.pth", "A.pth", "model.pth">>
    ELSE <<"src_model.pth", "tgt_model.pth", "A.pth", "model.pth">>

\* torch.load of the checkpoint files of the two selected directories
DrvLoadCheckpoints ==
    /\ drv_pc = "models"
    /\ \E present \in (IF drv_script = "2d_worst" THEN {drv_present}
                       ELSE SUBSET CheckpointFiles) :
          LET files == LoadFiles(drv_script, drv_dataset_type)
              first == FirstMissing(files, present)
          IN  /\ drv_present' = present
              /\ drv_effects' = drv_effects \o
                    [k \in 1..(IF first = 0 THEN Len(files) ELSE first)
                        |-> "torch.load"]
              /\ drv_pc' = IF first = 0 THEN "loaded" ELSE "aborted"
              /\ drv_error' = IF first = 0 THEN "none" ELSE "FileNotFoundError"
    /\ UNCHANGED <<drv_script, drv_seed, drv_dataset_type, drv_listing,
                   drv_subdirs, drv_subdir, drv_counts>>
    /\ UNCHANGED notDrvVars

DrvRest ==
    /\ drv_listing = NoListing
    /\ drv_subdirs = NoSubdirs
    /\ drv_subdir = NoSubdir
    /\ drv_present = {}
    /\ drv_counts = NoCounts
    /\ drv_effects = <<>>
    /\ drv_error = "none"

\* a driver right after parser.parse_args()
DrvInit ==
    /\ drv_pc = "parsed"
    /\ drv_script \in DrvScripts
    /\ drv_seed \in DrvSeeds
    /\ drv_dataset_type \in DrvDatasetTypes
    /\ DrvRest

DrvIdle ==
    /\ drv_pc = "idle"
    /\ drv_script = "1d"
    /\ drv_seed = MinSeed
    /\ drv_dataset_type = "Derivative"
    /\ DrvRest

-----------------------------------------------------------------------------
(* Claims about the drivers' start-up, checked under SpecDriver *)

\* the process has done nothing but parse and validate its arguments
NothingTouched ==
    /\ drv_effects = <<>>
    /\ drv_listing = NoListing
    /\ drv_subdirs = NoSubdirs
    /\ drv_subdir = NoSubdir

ValidationDone == drv_pc # "parsed"

SeedOutside == drv_seed < 1 \/ drv_seed > 10

TypeOutside ==
    \/ drv_script = "1d" /\ drv_dataset_type \notin {"Derivative", "Integral", "Darcy"}
    \/ drv_script \in {"2d_diff", "2d_worst"}
          /\ drv_dataset_type \notin {"Elastic", "Heat", "LShaped"}

\* C9: in each of the three drivers a seed outside [1,10] ends the process
\* with the assertion "Seed must be between 1 and 10." before any directory is
\* listed, any dataset or model is built or any file is read; a dataset_type
\* outside the driver's supported set ends it by an assertion in the same way;
\* valid arguments do not end it there.
C9_InvalidArgumentsAbortFirst ==
    ValidationDone =>
        /\ SeedOutside =>
              /\ drv_pc = "aborted"
              /\ drv_error = "AssertionError: Seed must be between 1 and 10."
              /\ NothingTouched
        /\ (~SeedOutside /\ TypeOutside) =>
              /\ drv_pc = "aborted"
              /\ drv_error \in
                    {"AssertionError: Only Derivative, Integral, and Darcy datasets are supported for this script.",
                     "AssertionError: Only Elastic, Heat, and LShaped are supported."}
              /\ NothingTouched
        /\ (~SeedOutside /\ ~TypeOutside /\ drv_pc = "aborted") => drv_effects # <<>>

\* C9 witness: the exporter stopped on seed 11 with a supported dataset_type
C9_Witness ==
    /\ drv_pc = "aborted"
    /\ drv_script = "2d_worst"
    /\ drv_seed = 11
    /\ drv_dataset_type = "Heat"
    /\ drv_error = "AssertionError: Seed must be between 1 and 10."
    /\ drv_effects = <<>>

\* the timestamp a name stands for, in hours
TimestampOf(e) == e.name[1] * 24 + e.name[2]

SubdirsIn(content) == {e \in content : e.isdir}

\* timestamp-named sub-directories, pairwise distinct timestamps, at least seed
SelectionPrecondition(content) ==
    /\ \A e \in SubdirsIn(content) : Len(e.name) = 2
    /\ \A a, b \in SubdirsIn(content) : TimestampOf(a) = TimestampOf(b) => a = b
    /\ Cardinality(SubdirsIn(content)) >= drv_seed

OlderSiblings(content, e) ==
    {d \in SubdirsIn(content) : TimestampOf(d) < TimestampOf(e)}

BothListed == Len(drv_effects) >= 2

ChosenIsSeedthOldest(content, chosen) ==
    /\ chosen \in SubdirsIn(content)
    /\ Cardinality(OlderSiblings(content, chosen)) = drv_seed - 1

\* C10: when both checkpoint directories hold timestamp-named sub-directories
\* with pairwise distinct timestamps, at least seed of them, the selection
\* succeeds and the directory chosen under deeponet/ and the one chosen under
\* matrix_least_squares/ is the sub-directory with exactly seed-1 strictly
\* older sibling sub-directories, whatever the listing order and whatever
\* non-directory entries are present.
C10_SeedthOldestSubdir ==
    (/\ BothListed
     /\ SelectionPrecondition(drv_listing.deeponet)
     /\ SelectionPrecondition(drv_listing.b2b)) =>
        /\ drv_error \notin {"ValueError", "IndexError"}
        /\ ChosenIsSeedthOldest(drv_listing.deeponet, drv_subdir.deeponet)
        /\ ChosenIsSeedthOldest(drv_listing.b2b, drv_subdir.b2b)

\* C10 witness: seed 2; deeponet/ holds a file older than its two
\* sub-directories, matrix_least_squares/ holds three sub-directories
C10_Witness ==
    /\ drv_pc = "selected"
    /\ drv_seed = 2
    /\ \E f \in drv_listing.deeponet : ~f.isdir
    /\ Cardinality(SubdirsIn(drv_listing.deeponet)) = 2
    /\ Cardinality(SubdirsIn(drv_listing.b2b)) = 3
    /\ drv_subdir.deeponet.name = <<2, 3>>
    /\ drv_subdir.b2b.name = <<2, 1>>

\* position-independent tests on the effects log
Touched(effect) == \E k \in 1..Len(drv_effects) : drv_effects[k] = effect

NothingBuiltOrLoaded ==
    /\ ~Touched("manual_seed")
    /\ ~Touched("get_dataset")
    /\ ~Touched("build b2b_model")
    /\ ~Touched("build deeponet_model")
    /\ ~Touched("torch.load")
    /\ drv_counts = NoCounts

\* the exporter has looked for the matrix-method checkpoint files
PreflightRan == drv_script = "2d_worst" /\ Touched("exists src_model.pth")

\* C12: in the exporter, when src_model.pth, tgt_model.pth or A.pth is absent
\* from the selected matrix-method directory, the run ends with a
\* FileNotFoundError naming the first absent file in the order src, tgt, A,
\* and no dataset has been constructed, no model built and no checkpoint
\* loaded; for every supported dataset_type, Heat included.
C12_PreflightFailsFast ==
    PreflightRan =>
        /\ "src_model.pth" \notin drv_present =>
              /\ drv_error = "FileNotFoundError: Source model not found at: src_model.pth"
              /\ drv_pc = "aborted" /\ NothingBuiltOrLoaded
        /\ ("src_model.pth" \in drv_present /\ "tgt_model.pth" \notin drv_present) =>
              /\ drv_error = "FileNotFoundError: Target model not found at: tgt_model.pth"
              /\ drv_pc = "aborted" /\ NothingBuiltOrLoaded
        /\ ({"src_model.pth", "tgt_model.pth"} \subseteq drv_present
               /\ "A.pth" \notin drv_present) =>
              /\ drv_error = "FileNotFoundError: A model not found at: A.pth"
              /\ drv_pc = "aborted" /\ NothingBuiltOrLoaded
        /\ {"src_model.pth", "tgt_model.pth", "A.pth"} \subseteq drv_present =>
              drv_error \notin Range(PreflightMessages)

\* C12 witness: Heat, with src_model.pth and A.pth both absent
C12_Witness ==
    /\ PreflightRan
    /\ drv_dataset_type = "Heat"
    /\ drv_present = {"tgt_model.pth", "model.pth"}
    /\ drv_pc = "aborted"
    /\ drv_error = "FileNotFoundError: Source model not found at: src_model.pth"

\* the position of the first occurrence of an effect, or 0
FirstAt(effect) ==
    IF Touched(effect)
    THEN CHOOSE k \in 1..Len(drv_effects) :
            drv_effects[k] = effect /\ \A j \in 1..(k - 1) : drv_effects[j] # effect
    ELSE 0

Mismatch(pair) == pair # <<>> /\ pair[1] # pair[2]

\* C20: in every driver both parameter-count assertions come before the first
\* checkpoint load, and a mismatch in either ends the run with the assertion
\* error, no checkpoint loaded and the evaluation never reached.
C20_CountAssertionsBeforeLoad ==
    /\ Touched("torch.load") =>
          /\ FirstAt("assert b2b_model") > 0
          /\ FirstAt("assert b2b_model") < FirstAt("assert deeponet_model")
          /\ FirstAt("assert deeponet_model") < FirstAt("torch.load")
          /\ ~Mismatch(drv_counts.b2b) /\ ~Mismatch(drv_counts.deeponet)
          /\ drv_counts.b2b # <<>> /\ drv_counts.deeponet # <<>>
    /\ (Mismatch(drv_counts.b2b) \/ Mismatch(drv_counts.deeponet)) =>
          /\ drv_pc = "aborted"
          /\ drv_error = "AssertionError: Number of parameters is not consistent"
          /\ ~Touched("torch.load")
    /\ drv_pc = "loaded" => Touched("torch.load")

\* C20 witness: the matrix model's counts agree, the operator network's do
\* not, and the run has ended before any load
C20_Witness ==
    /\ drv_pc = "aborted"
    /\ drv_counts.b2b = <<7, 7>>
    /\ drv_counts.deeponet = <<7, 8>>
    /\ Touched("assert deeponet_model")
    /\ ~Touched("torch.load")

-----------------------------------------------------------------------------
(* Visualizer: the hole mask of plot_displacement_magnitude                 *)
(* (src/plotting_scripts/plot_worst.py, lines 32-51)                        *)

\* np.linspace(0, 1, 200): point k of the axis is k / (GridPoints - 1)
GridPoints == 200

GridIdx == 0..(GridPoints - 1)

\* (X - 0.5)**2 + (Y - 0.5)**2 <= 0.25**2 at X = col / d, Y = row / d with
\* d = GridPoints - 1; both sides are multiplied by 16 d^2. No grid point is
\* closer than 0.25 / 9900.25 (relative) to equality, so the floating-point
\* comparison gives the exact result.
hole_mask_Diameter(row, col) ==
    LET d == GridPoints - 1
    IN  4 * ((2 * col - d) * (2 * col - d) + (2 * row - d) * (2 * row - d)) <= 4 * d * d

hole_mask(row, col) ==
    LET d == GridPoints - 1
    IN  4 * ((2 * col - d) * (2 * col - d) + (2 * row - d) * (2 * row - d)) <= d * d

\* U = np.ma.masked_where(mask, U), at the grid point [hm_row, hm_col]
HmMask ==
    /\ hm_pc = "grid"
    /\ hm_masked' = hole_mask(hm_row, hm_col)
    /\ hm_pc' = "masked"
    /\ UNCHANGED <<hm_row, hm_col>>
    /\ UNCHANGED notHmVars

HmInit ==
    /\ hm_pc = "grid"
    /\ hm_row \in GridIdx
    /\ hm_col \in GridIdx
    /\ hm_masked = FALSE

HmIdle ==
    /\ hm_pc = "idle"
    /\ hm_row = 0
    /\ hm_col = 0
    /\ hm_masked = FALSE

\* squared distance of the grid point from the centre (1/2, 1/2), and the
\* squared radius 1/16, both in units of 1 / (4 (GridPoints - 1))^2
DistanceSquared ==
    (4 * hm_col - 2 * (GridPoints - 1)) * (4 * hm_col - 2 * (GridPoints - 1))
        + (4 * hm_row - 2 * (GridPoints - 1)) * (4 * hm_row - 2 * (GridPoints - 1))

RadiusSquared == (GridPoints - 1) * (GridPoints - 1)

\* C16: on the 200 x 200 grid over [0,1]^2 every point strictly inside the
\* circle of radius 0.25 about (0.5, 0.5) is masked, every point strictly
\* outside is not, and a point exactly on the circle is masked.
C16_HoleMask ==
    hm_pc = "masked" =>
        /\ DistanceSquared < RadiusSquared => hm_masked
        /\ DistanceSquared > RadiusSquared => ~hm_masked
        /\ DistanceSquared = RadiusSquared => hm_masked

\* C16 witness: the grid point nearest inside the circle on the row through
\* 100/199 is masked
C16_Witness ==
    /\ hm_pc = "masked"
    /\ hm_row = 100
    /\ hm_col = 50
    /\ hm_masked

\* a grid point just outside the circle is not masked
C16_OutsideWitness ==
    /\ hm_pc = "masked"
    /\ hm_row = 100
    /\ hm_col = 49
    /\ ~hm_masked

-----------------------------------------------------------------------------
(* Visualizer: load_and_plot_predictions and the colour scale of            *)
(* plot_displacement_magnitude                                              *)
(* (src/plotting_scripts/plot_worst.py, lines 53-72 and 116-197)            *)

\* mesh points of the first sample
NVisPoints == 2

VisPoints == 1..NVisPoints

\* displacement vectors <<ux, uy>> the bundle is taken to hold; every
\* difference of a prediction and a ground truth has an integer magnitude
VisTruths == {<<0, 0>>, <<3, 4>>}
VisPredictions == {<<0, 0>>, <<3, 4>>, <<6, 8>>}

\* np.sqrt, on the perfect squares the vectors above give
np_sqrt(n) == CHOOSE r \in 0..n : r * r = n

\* np.sqrt(ux**2 + uy**2), element by element
magnitude(u) == [k \in 1..Len(u) |-> np_sqrt(u[k][1] * u[k][1] + u[k][2] * u[k][2])]

\* a - b, element by element, on both components
minus(a, b) == [k \in 1..Len(a) |-> <<a[k][1] - b[k][1], a[k][2] - b[k][2]>>]

\* np.max and the built-in max
np_max(values) ==
    CHOOSE m \in {values[k] : k \in 1..Len(values)} :
        \A k \in 1..Len(values) : values[k] <= m

\* None
None == <<>>

\* number of contour levels with and without a colour scale (lines 61, 63)
ScaledLevels == 51
DefaultLevels == 50

\* `vmin is not None and vmax is not None` (lines 54 and 60)
has_scale_Truthy(vmin, vmax) == vmin # None /\ vmin # <<0>> /\ vmax # None /\ vmax # <<0>>

has_scale(vmin, vmax) == vmin # None /\ vmax # None

\* norm and levels of one call of plot_displacement_magnitude (53-63);
\* vmin and vmax are None or a one-element tuple holding the number
contour_scale(vmin, vmax) ==
    IF has_scale(vmin, vmax)
    THEN [norm |-> <<vmin[1], vmax[1]>>, levels |-> <<vmin[1], vmax[1], ScaledLevels>>]
    ELSE [norm |-> None, levels |-> <<DefaultLevels>>]

\* plt.contourf raises ValueError when the explicit levels do not increase
contourf_fails(scale) == scale.norm # None /\ scale.norm[1] >= scale.norm[2]

\* one call of plot_displacement_magnitude, made at position pc and followed
\* by position next
VisPlotCall(pc, next, title, ux_uy, vmin, vmax) ==
    /\ vis_pc = pc
    /\ LET scale == contour_scale(vmin, vmax)
       IN  IF contourf_fails(scale)
           THEN /\ vis_pc' = "aborted"
                /\ vis_error' = "ValueError"
                /\ UNCHANGED vis_plots
           ELSE /\ vis_pc' = next
                /\ vis_plots' = Append(vis_plots,
                                       [title |-> title,
                                        plotted |-> magnitude(ux_uy),
                                        norm |-> scale.norm,
                                        levels |-> scale.levels])
                /\ UNCHANGED vis_error
    /\ UNCHANGED <<vis_data, vis_scale>>
    /\ UNCHANGED notVisVars

\* lines 139-143
VisPlotGroundtruth ==
    VisPlotCall("groundtruth", "b2b", "Groundtruth Displacement Magnitude |u|",
                vis_data.ys, None, None)

\* lines 146-150
VisPlotB2B ==
    VisPlotCall("b2b", "deeponet", "B2B Displacement Magnitude |u|",
                vis_data.b2b, None, None)

\* lines 153-157
VisPlotDeepONet ==
    VisPlotCall("deeponet", "scale", "DeepONet Displacement Magnitude |u|",
                vis_data.deeponet, None, None)

\* vmax = max([np.max(mag) for mag in error_magnitudes]) (lines 166-171)
common_vmax(error_magnitudes) ==
    np_max([m \in 1..Len(error_magnitudes) |-> np_max(error_magnitudes[m])])

\* lines 160-177
VisErrorScale ==
    /\ vis_pc = "scale"
    /\ LET error_magnitudes == <<magnitude(minus(vis_data.b2b, vis_data.ys)),
                                 magnitude(minus(vis_data.deeponet, vis_data.ys))>>
       IN  vis_scale' = [vmin |-> <<0>>, vmax |-> <<common_vmax(error_magnitudes)>>]
    /\ vis_pc' = "b2b_error"
    /\ UNCHANGED <<vis_data, vis_plots, vis_error>>
    /\ UNCHANGED notVisVars

\* lines 180-187
VisPlotB2BError ==
    VisPlotCall("b2b_error", "deeponet_error", "B2B Error Magnitude |u_b2b - u_true|",
                minus(vis_data.b2b, vis_data.ys), vis_scale.vmin, vis_scale.vmax)

\* lines 190-197
VisPlotDeepONetError ==
    VisPlotCall("deeponet_error", "done",
                "DeepONet Error Magnitude |u_deeponet - u_true|",
                minus(vis_data.deeponet, vis_data.ys), vis_scale.vmin, vis_scale.vmax)

VisRest ==
    /\ vis_scale = [vmin |-> None, vmax |-> None]
    /\ vis_plots = <<>>
    /\ vis_error = "none"

\* after the JSON file was loaded and sample 0 extracted (lines 117-136)
VisInit ==
    /\ vis_pc = "groundtruth"
    /\ vis_data \in [ys : [VisPoints -> VisTruths],
                     b2b : [VisPoints -> VisPredictions],
                     deeponet : [VisPoints -> VisPredictions]]
    /\ VisRest

VisIdle ==
    /\ vis_pc = "idle"
    /\ vis_data = [ys |-> <<>>, b2b |-> <<>>, deeponet |-> <<>>]
    /\ VisRest

-----------------------------------------------------------------------------
(* Claims about the colour scales, checked under SpecVisualizer *)

ErrorTitles ==
    {"B2B Error Magnitude |u_b2b - u_true|",
     "DeepONet Error Magnitude |u_deeponet - u_true|"}

\* the length of the difference of two displacement vectors
ErrorLength(a, b) ==
    np_sqrt((a[1] - b[1]) * (a[1] - b[1]) + (a[2] - b[2]) * (a[2] - b[2]))

\* the largest error either method makes at any mesh point
LargestError ==
    CHOOSE e \in {ErrorLength(vis_data[m][k], vis_data.ys[k]) :
                     m \in {"b2b", "deeponet"}, k \in VisPoints} :
        \A m \in {"b2b", "deeponet"}, k \in VisPoints :
            ErrorLength(vis_data[m][k], vis_data.ys[k]) <= e

\* C17: the two error plots are drawn on the same colour scale [0, vmax],
\* vmax being the largest error magnitude of both methods; the three
\* displacement plots are drawn without a fixed scale.
C17_SharedErrorScale ==
    \A k \in 1..Len(vis_plots) :
        IF vis_plots[k].title \in ErrorTitles
        THEN /\ vis_plots[k].norm = <<0, LargestError>>
             /\ vis_plots[k].levels = <<0, LargestError, 51>>
        ELSE /\ vis_plots[k].norm = None
             /\ vis_plots[k].levels = <<50>>

\* C17 witness: all five plots drawn; the operator network makes the largest
\* error, 10, and the matrix method's error plot is drawn on [0, 10] as well
C17_Witness ==
    /\ vis_pc = "done"
    /\ Len(vis_plots) = 5
    /\ vis_plots[4].title = "B2B Error Magnitude |u_b2b - u_true|"
    /\ np_max(vis_plots[4].plotted) = 5
    /\ vis_plots[4].norm = <<0, 10>>
    /\ vis_plots[5].norm = <<0, 10>>
    /\ vis_plots[1].norm = None

-----------------------------------------------------------------------------
(* Dataset downloader (src/download_data.py)                                *)

\* largest archive, in bytes
MaxLength == 5
\* bytes urlretrieve reads per block
BlockSize == 2

Dirs ==
    {"src/Datasets/Heat", "src/Datasets/L-Shaped", "src/Datasets/Darcy",
     "src/Datasets/Elastic"}

\* desc, the id of the link and the destination of every urlretrieve call
Downloads ==
    <<[desc |-> "Heat Train", ln |-> "1mSMplhocRU_0MJSwAnlXYpo4SCYoSkPk",
       path |-> "src/Datasets/Heat/heatequation_train.mat"],
      [desc |-> "Heat Test", ln |-> "1JUFD9VDa2Drgd9OZ7yDAGapQ8AJKeaC1",
       path |-> "src/Datasets/Heat/heatequation_test.mat"],
      [desc |-> "L-Shaped Train", ln |-> "1dSjOjI-DHhmUgcFonAqLIqvQIfKouqZo",
       path |-> "src/Datasets/L-Shaped/linearDarcy_train.mat"],
      [desc |-> "L-Shaped Test", ln |-> "1_6s-fPzTZCqpysLhfocm6qth8OBl1H-k",
       path |-> "src/Datasets/L-Shaped/linearDarcy_test.mat"],
      [desc |-> "Elastic Train", ln |-> "1Fm3iyp2EZvGi2LefNhh_pfZCfprqsG17",
       path |-> "src/Datasets/Elastic/linearElasticity_train.mat"],
      [desc |-> "Elastic Test", ln |-> "1Fm3iyp2EZvGi2LefNhh_pfZCfprqsG17",
       path |-> "src/Datasets/Elastic/linearElasticity_test.mat"]>>

\* the script after a download: the next urlretrieve call, or print("Done!")
after_download_SkipLast(k) == IF k >= Len(Downloads) - 1 THEN "done" ELSE "next"

after_download(k) == IF k = Len(Downloads) THEN "done" ELSE "next"

NoBar == [open |-> FALSE]
NoTransfer == [block_size |-> 0, length |-> 0, total_size |-> 0, block_num |-> 0]

\* os.makedirs of the four directories and the announcement (lines 23-29)
DlMakeDirs ==
    /\ dl_pc = "makedirs"
    /\ \E created \in SUBSET Dirs :
          /\ dl_dirs' = created
          /\ IF created = Dirs
             THEN dl_pc' = "next" /\ UNCHANGED dl_error
             ELSE dl_pc' = "aborted" /\ dl_error' = "OSError"
    /\ UNCHANGED <<dl_k, pbar, count, desc, dl_transfer, dl_started, dl_files>>
    /\ UNCHANGED notDlVars

\* desc = ...; urllib.request.urlretrieve(ln, path, reporthook=show_progress):
\* the request is sent and the headers are read; the Content-Length header
\* gives total_size, -1 when the server sends none
DlStartDownload ==
    /\ dl_pc = "next"
    /\ desc' = Downloads[dl_k].desc
    /\ dl_started' = Append(dl_started, dl_k)
    /\ \E connected \in BOOLEAN, length \in 0..MaxLength, known \in BOOLEAN :
          IF connected
          THEN /\ dl_transfer' = [block_size |-> BlockSize,
                                  length |-> length,
                                  total_size |-> IF known THEN length ELSE -1,
                                  block_num |-> 0]
               /\ dl_files' = Append(dl_files, [path |-> Downloads[dl_k].path,
                                                ln |-> Downloads[dl_k].ln,
                                                whole |-> FALSE])
               /\ dl_pc' = "transfer"
               /\ UNCHANGED dl_error
          ELSE /\ dl_pc' = "aborted"
               /\ dl_error' = "URLError"
               /\ UNCHANGED <<dl_transfer, dl_files>>
    /\ UNCHANGED <<dl_k, dl_dirs, pbar, count>>
    /\ UNCHANGED notDlVars

\* blocks urlretrieve reads from a body of the given length
n_blocks(length, block_size) == (length + block_size - 1) \div block_size

\* `downloaded < total_size` (line 14)
still_downloading_Inclusive(downloaded, total_size) == downloaded <= total_size

still_downloading(downloaded, total_size) == downloaded < total_size

\* show_progress(block_num, block_size, total_size) (lines 7-20): the bar and
\* the count it leaves
show_progress(block_num, block_size, total_size) ==
    LET bar == IF pbar = NoBar
               THEN [open |-> TRUE, total |-> total_size, n |-> 0, desc |-> desc]
               ELSE pbar
        downloaded == block_num * block_size
    IN  IF still_downloading(downloaded, total_size)
        THEN [pbar |-> [bar EXCEPT !.n = @ + (downloaded - count)],
              count |-> downloaded]
        ELSE [pbar |-> NoBar, count |-> 0]

\* urlretrieve calls the hook once before the first read and once after every
\* block it has read and written
DlReport ==
    /\ dl_pc = "transfer"
    /\ dl_transfer.block_num <= n_blocks(dl_transfer.length, dl_transfer.block_size)
    /\ LET after == show_progress(dl_transfer.block_num, dl_transfer.block_size,
                                  dl_transfer.total_size)
       IN  /\ pbar' = after.pbar
           /\ count' = after.count
    /\ dl_transfer' = [dl_transfer EXCEPT !.block_num = @ + 1]
    /\ UNCHANGED <<dl_pc, dl_k, dl_dirs, desc, dl_started, dl_files, dl_error>>
    /\ UNCHANGED notDlVars

\* reading the next block fails: the exception leaves urlretrieve and the
\* script, the part already written stays on disk
DlReadFails ==
    /\ dl_pc = "transfer"
    /\ 0 < dl_transfer.block_num
    /\ dl_transfer.block_num <= n_blocks(dl_transfer.length, dl_transfer.block_size)
    /\ dl_pc' = "aborted"
    /\ dl_error' = "URLError"
    /\ UNCHANGED <<dl_k, dl_dirs, pbar, count, desc, dl_transfer, dl_started, dl_files>>
    /\ UNCHANGED notDlVars

\* the body is read to its end and urlretrieve returns
DlReturn ==
    /\ dl_pc = "transfer"
    /\ dl_transfer.block_num > n_blocks(dl_transfer.length, dl_transfer.block_size)
    /\ dl_files' = [dl_files EXCEPT ![Len(dl_files)].whole = TRUE]
    /\ dl_pc' = after_download(dl_k)
    /\ dl_k' = dl_k + 1
    /\ UNCHANGED <<dl_dirs, pbar, count, desc, dl_transfer, dl_started, dl_error>>
    /\ UNCHANGED notDlVars

DlRest ==
    /\ dl_k = 1
    /\ dl_dirs = {}
    /\ pbar = NoBar
    /\ count = 0
    /\ desc = ""
    /\ dl_transfer = NoTransfer
    /\ dl_started = <<>>
    /\ dl_files = <<>>
    /\ dl_error = "none"

\* the module after its definitions (lines 5-20)
DlInit ==
    /\ dl_pc = "makedirs"
    /\ DlRest

DlIdle ==
    /\ dl_pc = "idle"
    /\ DlRest

-----------------------------------------------------------------------------
(* Claims about the downloader, checked under SpecDownloader *)

ProgressIdle == pbar = NoBar /\ count = 0

\* the hook calls the running download has made
CallsMade == dl_transfer.block_num

\* C18: after the callbacks of a download that runs to completion the
\* progress state is idle when the download returns, so it is idle at the
\* start of each of the six downloads and after the last; while a bar is
\* open, count equals the bytes reported to it and does not exceed total_size.
C18_ProgressIdleBetweenDownloads ==
    /\ dl_pc \in {"makedirs", "next", "done"} => ProgressIdle
    /\ (dl_pc = "transfer" /\ CallsMade > n_blocks(dl_transfer.length, dl_transfer.block_size))
          => ProgressIdle
    /\ pbar # NoBar =>
          /\ dl_pc \in {"transfer", "aborted"}
          /\ count = pbar.n
          /\ count = (CallsMade - 1) * dl_transfer.block_size
          /\ count <= pbar.total
          /\ pbar.total = dl_transfer.total_size

\* C18 witness: all six downloads returned, the last after four callbacks
\* (0, 2 and 4 of 5 bytes reported, then the closing call), and the state is idle
C18_Witness ==
    /\ dl_pc = "done"
    /\ Len(dl_files) = 6
    /\ dl_transfer.length = 5
    /\ dl_transfer.total_size = 5
    /\ dl_transfer.block_num = 4
    /\ ProgressIdle

\* a bar is open in the middle of a download, with 4 of 5 bytes reported
C18_BarOpen ==
    /\ dl_pc = "transfer"
    /\ pbar # NoBar
    /\ pbar.total = 5
    /\ count = 4

ExpectedOrder ==
    <<"Heat Train", "Heat Test", "L-Shaped Train", "L-Shaped Test",
      "Elastic Train", "Elastic Test">>

\* what a step of the downloader may do
DownloaderStep ==
    \* nothing runs after an uncaught exception or after the last download
    /\ dl_pc \in {"aborted", "done"} => UNCHANGED dlVars
    \* a failed download ends the run where it is: no retry, no later start
    /\ (dl_error = "none" /\ dl_error' # "none") =>
          /\ dl_pc' = "aborted"
          /\ dl_k' = dl_k
          /\ Len(dl_started') <= dl_k
    \* a download starts only when all earlier ones have returned
    /\ dl_started' # dl_started =>
          /\ dl_started' = Append(dl_started, Len(dl_started) + 1)
          /\ \A f \in 1..Len(dl_files) : dl_files[f].whole
          /\ Len(dl_files) = Len(dl_started)
          /\ dl_dirs = Dirs

\* C19: six downloads to six pairwise distinct paths, one after another in
\* the order Heat train, Heat test, L-Shaped train, L-Shaped test, Elastic
\* train, Elastic test, after all four directories were created; a network
\* error in download k is not caught or retried and no later download
\* starts; a run that ends without error has written all six files.
C19_SequentialDownloads ==
    /\ [](/\ Len(Downloads) = 6
          /\ \A i, j \in 1..Len(Downloads) :
                i # j => Downloads[i].path # Downloads[j].path
          /\ \A k \in 1..Len(dl_started) :
                /\ dl_started[k] = k
                /\ Downloads[dl_started[k]].desc = ExpectedOrder[k]
          /\ \A f \in 1..Len(dl_files) : dl_files[f].path = Downloads[f].path
          /\ dl_error # "none" => dl_pc = "aborted"
          /\ dl_pc = "done" =>
                /\ dl_error = "none"
                /\ Len(dl_files) = 6
                /\ \A f \in 1..6 : dl_files[f].whole)
    /\ [][DownloaderStep]_vars

\* C19 witness: the third download failed after the first two were written;
\* downloads 4 to 6 were not started
C19_Witness ==
    /\ dl_pc = "aborted"
    /\ dl_error = "URLError"
    /\ dl_started = <<1, 2, 3>>
    /\ Len(dl_files) = 3
    /\ dl_files[2].whole
    /\ ~dl_files[3].whole

\* a run that ended without error: six whole files
C19_AllWritten ==
    /\ dl_pc = "done"
    /\ dl_error = "none"
    /\ Len(dl_files) = 6

-----------------------------------------------------------------------------
(* Two runs of an evaluation driver, from torch.manual_seed to the end of the
   search loop (1d.py 139-263, 2d_diff_error_d.py 139-289, 2d_worst_exp.py
   213-338).  The runs are independent processes; each starts with a default
   generator in a state the driver has not chosen. *)

Runs == {1, 2}

RunSearchSteps == 2

RunSeeds == {MinSeed, MinSeed + 1}

\* the weights the checkpoint files hold
Checkpoints == {"weights_a", "weights_b"}

\* what the default generator holds when the process starts: states no
\* --seed value produces
Entropy == {-1, -2}

\* a generator state: what it was last set from and the draws made since
Generator(seed, drawn) == [seed |-> seed, drawn |-> drawn]

\* torch.manual_seed(seed)
manual_seed_Ignored(g, seed) == g

manual_seed(g, seed) == Generator(seed, 0)

\* one draw: the value is determined by the state, and the state advances
Draw(g) == <<g.seed, g.drawn>>

Advance(g, n) == [g EXCEPT !.drawn = g.drawn + n]

\* the randomly initialised modules the models are built from: the source and
\* target encoders, the transformation A, the operator network
RandomModules == <<"src_model", "tgt_model", "A", "deeponet_model">>

\* per-function loss of the rows of a batch under the loaded weights: a
\* function of the batch and of the weights only
LossOfRow(checkpoint, batch, p) ==
    (batch[1] + batch[2] * p + (IF checkpoint = "weights_a" THEN 0 ELSE p)) % 3

LossesOf(checkpoint, batch) ==
    [p \in 1..ExpBatchSize |-> LossOfRow(checkpoint, batch, p)]

NoHardest == [loss |-> InitialB2bLoss, batch |-> <<>>, row |-> 0]

\* torch.manual_seed(args.seed)
RunSeed(r) ==
    /\ run_pc[r] = "start"
    /\ generator' = [generator EXCEPT ![r] = manual_seed(generator[r], run_args[r].seed)]
    /\ run_pc' = [run_pc EXCEPT ![r] = "seeded"]
    /\ UNCHANGED <<run_args, run_drawn, run_step, run_hardest>>
    /\ UNCHANGED notRunVars

\* the samples get_dataset draws to freeze the example inputs: the source, the
\* target and the combined dataset
FrozenSamples(g) == <<Draw(g), Draw(Advance(g, 1)), Draw(Advance(g, 2))>>

\* the two get_dataset calls: the training and the testing dataset
RunBuildDatasets(r) ==
    /\ run_pc[r] = "seeded"
    /\ run_drawn' = [run_drawn EXCEPT ![r] =
            @ \o FrozenSamples(generator[r]) \o FrozenSamples(Advance(generator[r], 3))]
    /\ generator' = [generator EXCEPT ![r] = Advance(@, 6)]
    /\ run_pc' = [run_pc EXCEPT ![r] = "datasets"]
    /\ UNCHANGED <<run_args, run_step, run_hardest>>
    /\ UNCHANGED notRunVars

\* model construction draws the initial weights from the generator; the
\* checkpoints then replace them
RunBuildAndLoadModels(r) ==
    /\ run_pc[r] = "datasets"
    /\ generator' = [generator EXCEPT ![r] = Advance(@, Len(RandomModules))]
    /\ run_pc' = [run_pc EXCEPT ![r] = "search"]
    /\ UNCHANGED <<run_args, run_drawn, run_step, run_hardest>>
    /\ UNCHANGED notRunVars

\* one iteration of the search loop: sample, losses, argmax, comparison
RunSearchStep(r) ==
    /\ run_pc[r] = "search"
    /\ LET batch == Draw(generator[r])
           losses == LossesOf(run_args[r].checkpoint, batch)
           max_index == ArgMax(losses)
       IN  /\ run_drawn' = [run_drawn EXCEPT ![r] = Append(@, batch)]
           /\ generator' = [generator EXCEPT ![r] = Advance(@, 1)]
           /\ run_hardest' = [run_hardest EXCEPT ![r] =
                  IF improves(losses[max_index], @.loss)
                  THEN [loss |-> losses[max_index], batch |-> batch, row |-> max_index]
                  ELSE @]
    /\ run_step' = [run_step EXCEPT ![r] = @ + 1]
    /\ run_pc' = [run_pc EXCEPT ![r] =
            IF run_step[r] + 1 = RunSearchSteps THEN "done" ELSE "search"]
    /\ UNCHANGED run_args
    /\ UNCHANGED notRunVars

RunRest ==
    /\ run_drawn = [r \in Runs |-> <<>>]
    /\ run_step = [r \in Runs |-> 0]
    /\ run_hardest = [r \in Runs |-> NoHardest]

\* two processes right after their arguments were validated
RunInit ==
    /\ run_args \in [Runs -> [seed : RunSeeds, checkpoint : Checkpoints]]
    /\ run_pc = [r \in Runs |-> "start"]
    /\ generator \in [Runs -> {Generator(e, 0) : e \in Entropy}]
    /\ RunRest

RunIdle ==
    /\ run_args = [r \in Runs |-> [seed |-> MinSeed, checkpoint |-> "weights_a"]]
    /\ run_pc = [r \in Runs |-> "idle"]
    /\ generator = [r \in Runs |-> Generator(-1, 0)]
    /\ RunRest

-----------------------------------------------------------------------------
(* Claims about seeded runs, checked under SpecRuns *)

\* the batches the search loop of run r has drawn
SearchBatches(r) ==
    SubSeq(run_drawn[r], Len(run_drawn[r]) - run_step[r] + 1, Len(run_drawn[r]))

\* the first n elements of a sequence
Prefix(seq, n) == SubSeq(seq, 1, n)

Shorter(a, b) == IF a <= b THEN a ELSE b

\* C21: every batch a run draws, from the first sample of get_dataset on,
\* comes from a generator set from --seed; and two runs with the same seed
\* and the same checkpoints have drawn the same batches as far as both have
\* got and, after the same number of search steps, retain the same hardest
\* instance.
C21_SeededRunsAgree ==
    /\ \A r \in Runs : \A k \in 1..Len(run_drawn[r]) :
          run_drawn[r][k][1] = run_args[r].seed
    /\ run_args[1] = run_args[2] =>
          /\ LET n == Shorter(Len(run_drawn[1]), Len(run_drawn[2]))
             IN  Prefix(run_drawn[1], n) = Prefix(run_drawn[2], n)
          /\ run_step[1] = run_step[2] =>
                /\ SearchBatches(1) = SearchBatches(2)
                /\ run_hardest[1] = run_hardest[2]

\* C21 witness: two finished runs with the same arguments that started from
\* different generator states and retain the same instance
C21_Witness ==
    /\ run_args[1] = run_args[2]
    /\ run_pc = [r \in Runs |-> "done"]
    /\ Len(SearchBatches(1)) = RunSearchSteps
    /\ run_hardest[1] # NoHardest
    /\ run_hardest[1] = run_hardest[2]

\* two finished runs with different seeds retain different instances
C21_SeedsDiffer ==
    /\ run_args[1].seed # run_args[2].seed
    /\ run_pc = [r \in Runs |-> "done"]
    /\ run_hardest[1] # run_hardest[2]

-----------------------------------------------------------------------------
(* 1-D comparison driver, search loop (1d.py 234-263) *)

OdSearchSteps == 4

OdBatchSize == 2

\* b2b_loss = -1000000
OdInitialLoss == -1000000

\* ((b2b_y_hats - ys)**2).mean(dim=(1,2)): one mean squared error per function
OdLossVals == {0, 1}
OdLosses == [1..OdBatchSize -> OdLossVals]

\* the tensors and the info dict testing_combined_dataset.sample returns at
\* search step k: row p of each describes function p of that batch
OdSample(k) ==
    LET rows == [p \in 1..OdBatchSize |-> <<k, p>>]
    IN  [example_xs |-> Tensor("example_xs", rows),
         example_ys |-> Tensor("example_ys", rows),
         xs |-> Tensor("xs", rows),
         ys |-> Tensor("ys", rows),
         info |-> Tensor("info", rows)]

\* hardest_example_xs, ... = None, None, None, None, None
OdNone == [example_xs |-> None, example_ys |-> None, xs |-> None, ys |-> None,
           info |-> None]

\* losses[max_index] > b2b_loss
is_harder_OrEqual(loss, best) == loss >= best

is_harder(loss, best) == loss > best

\* one iteration of `for search_step in trange(1000)`
OdSearchStep ==
    /\ od_pc = "search"
    /\ \E losses \in OdLosses :
          LET s == OdSample(od_search_step + 1)
              max_index == ArgMax(losses)
          IN  /\ IF is_harder(losses[max_index], od_b2b_loss)
                 THEN /\ od_hardest' =
                            [example_xs |-> slice(s.example_xs, max_index),
                             example_ys |-> slice(s.example_ys, max_index),
                             xs |-> slice(s.xs, max_index),
                             ys |-> slice(s.ys, max_index),
                             info |-> slice(s.info, max_index)]
                      /\ od_b2b_loss' = losses[max_index]
                 ELSE UNCHANGED <<od_hardest, od_b2b_loss>>
              /\ od_losses' = Append(od_losses, losses)
    /\ od_search_step' = od_search_step + 1
    /\ od_pc' = IF od_search_step + 1 = OdSearchSteps THEN "done" ELSE "search"
    /\ UNCHANGED notOdVars

OdRest ==
    /\ od_search_step = 0
    /\ od_b2b_loss = OdInitialLoss
    /\ od_hardest = OdNone
    /\ od_losses = <<>>

OdInit == od_pc = "search" /\ OdRest

OdIdle == od_pc = "idle" /\ OdRest

-----------------------------------------------------------------------------
(* Claims about the 1-D search loop, checked under SpecSearch1d *)

\* the largest loss of any function of any batch sampled so far
LargestLoss ==
    CHOOSE l \in {od_losses[k][p] : k \in 1..Len(od_losses), p \in 1..OdBatchSize} :
        \A k \in 1..Len(od_losses), p \in 1..OdBatchSize : od_losses[k][p] <= l

\* the first batch, and its first row, that had the largest loss
EarliestLargest ==
    CHOOSE kp \in (1..Len(od_losses)) \X (1..OdBatchSize) :
        /\ od_losses[kp[1]][kp[2]] = LargestLoss
        /\ \A k \in 1..Len(od_losses), p \in 1..OdBatchSize :
              od_losses[k][p] = LargestLoss =>
                  \/ kp[1] < k
                  \/ kp[1] = k /\ kp[2] <= p

\* C24: after k >= 1 batches b2b_loss is the largest per-function loss of
\* batches 1..k, and the retained example_xs, example_ys, xs, ys and info are
\* each the one row of the earliest batch (first row within it) that had that
\* loss; before the first batch nothing is retained.
C24_RetainedIsEarliestLargest ==
    IF od_search_step = 0
    THEN od_hardest = OdNone /\ od_b2b_loss = OdInitialLoss
    ELSE /\ Len(od_losses) = od_search_step
         /\ od_b2b_loss = LargestLoss
         /\ od_hardest # OdNone
         /\ od_hardest.example_xs = Tensor("example_xs", <<EarliestLargest>>)
         /\ od_hardest.example_ys = Tensor("example_ys", <<EarliestLargest>>)
         /\ od_hardest.xs = Tensor("xs", <<EarliestLargest>>)
         /\ od_hardest.ys = Tensor("ys", <<EarliestLargest>>)
         /\ od_hardest.info = Tensor("info", <<EarliestLargest>>)

\* C24 witness: the largest loss was met in the second batch and again in
\* the third, and the row of the second batch is the one retained
C24_Witness ==
    /\ od_pc = "done"
    /\ od_losses[1] = <<0, 0>>
    /\ od_losses[2] = <<0, 1>>
    /\ od_losses[3] = <<1, 1>>
    /\ od_b2b_loss = 1
    /\ od_hardest.ys.rows = <<<<2, 2>>>>

-----------------------------------------------------------------------------
(* Construction of the nonlinear transformation map A (1d.py 179-186,
   2d_diff_error_d.py 184-191, 2d_worst_exp.py 257-264) *)

\* --n_layers is any integer; the default is 4
NLayersVals == {0, 1, 2, 3, 4}
HiddenSizes == {7, 8}
NBasisVals == {2, 3}
\* src_dataset.output_size[0]
SrcOutputSizes == {1, 5}

Linear(in_features, out_features) ==
    [kind |-> "Linear", in_features |-> in_features, out_features |-> out_features]

ReLU == [kind |-> "ReLU"]

\* src_model.n_basis if src_model is not None else src_dataset.output_size[0]
transformation_input_size(args) ==
    IF args.has_src_model THEN args.n_basis ELSE args.src_output_size

\* tgt_model.n_basis: the target encoder is built with n_basis + 1
tgt_n_basis(args) == args.n_basis + 1

\* layers = [Linear(transformation_input_size, hidden_size), ReLU()]
ABuildFirst ==
    /\ a_pc = "first"
    /\ layers' = <<Linear(transformation_input_size(a_args), a_args.hidden_size), ReLU>>
    /\ a_pc' = "hidden"
    /\ UNCHANGED <<a_args, a_layer>>
    /\ UNCHANGED notAVars

\* one iteration of `for layer in range(n_layers - 2)`
ABuildHidden ==
    /\ a_pc = "hidden"
    /\ a_layer < a_args.n_layers - 2
    /\ layers' = layers \o <<Linear(a_args.hidden_size, a_args.hidden_size), ReLU>>
    /\ a_layer' = a_layer + 1
    /\ UNCHANGED <<a_pc, a_args>>
    /\ UNCHANGED notAVars

\* layers += [Linear(hidden_size, tgt_model.n_basis)], after the loop
ABuildLast ==
    /\ a_pc = "hidden"
    /\ ~(a_layer < a_args.n_layers - 2)
    /\ layers' = Append(layers, Linear(a_args.hidden_size, tgt_n_basis(a_args)))
    /\ a_pc' = "built"
    /\ UNCHANGED <<a_args, a_layer>>
    /\ UNCHANGED notAVars

ARest == a_layer = 0 /\ layers = <<>>

\* a driver with the nonlinear transformation type about to build A
AInit ==
    /\ a_pc = "first"
    /\ a_args \in [n_layers : NLayersVals, hidden_size : HiddenSizes,
                   n_basis : NBasisVals, has_src_model : BOOLEAN,
                   src_output_size : SrcOutputSizes]
    /\ ARest

AIdle ==
    /\ a_pc = "idle"
    /\ a_args = [n_layers |-> 4, hidden_size |-> 7, n_basis |-> 2, has_src_model |-> TRUE,
                 src_output_size |-> 1]
    /\ ARest

-----------------------------------------------------------------------------
(* Claims about the transformation map, checked under SpecTransformation *)

LinearAt == {k \in 1..Len(layers) : layers[k].kind = "Linear"}

\* the widths chain from the input width through hidden_size to the target
\* n_basis, and a ReLU follows every linear layer but the last
WellFormed ==
    /\ layers[1] = Linear(transformation_input_size(a_args), a_args.hidden_size)
    /\ layers[Len(layers)] = Linear(a_args.hidden_size, a_args.n_basis + 1)
    /\ \A k \in 1..Len(layers) :
          /\ k % 2 = 0 => layers[k] = ReLU
          /\ (k % 2 = 1 /\ 1 < k /\ k < Len(layers)) =>
                layers[k] = Linear(a_args.hidden_size, a_args.hidden_size)

\* C26 (as claimed): for every value of n_layers the map built has exactly
\* n_layers linear layers of hidden width hidden_size, a ReLU after each but
\* the last, input width the source n_basis (the source output size without a
\* source model) and output width n_basis + 1.
C26_NLayersLinearLayers ==
    a_pc = "built" => (Cardinality(LinearAt) = a_args.n_layers /\ WellFormed)

\* what the drivers build: n_layers linear layers when n_layers >= 2, and two
\* linear layers for any smaller n_layers
C26_AtLeastTwoLinearLayers ==
    a_pc = "built" =>
        /\ Cardinality(LinearAt) = (IF a_args.n_layers >= 2 THEN a_args.n_layers ELSE 2)
        /\ Len(layers) = 2 * Cardinality(LinearAt) - 1
        /\ WellFormed

\* the map built for --n_layers 1 and no source model
C26_OneLayerAsked ==
    /\ a_pc = "built"
    /\ a_args.n_layers = 1
    /\ ~a_args.has_src_model
    /\ layers = <<Linear(a_args.src_output_size, a_args.hidden_size), ReLU,
                  Linear(a_args.hidden_size, a_args.n_basis + 1)>>

-----------------------------------------------------------------------------
(* The source model of the 2-D worst-case exporter, from its construction to
   the final prediction (2d_worst_exp.py 237-266, 297-304, 319-333, 346-383) *)

SmDatasetTypes == {"Elastic", "Heat", "LShaped"}

nonlinear_datasets == {"MountainCar", "Elastic", "Darcy", "Heat", "LShaped"}

transformation_type(dataset_type) ==
    IF dataset_type \in nonlinear_datasets THEN "nonlinear" ELSE "linear"

\* type(combined_dataset.src_dataset) == HeatSrcDataset: get_dataset builds a
\* HeatSrcDataset for the dataset type Heat and for no other
is_HeatSrcDataset_Never(dataset_type) == FALSE

is_HeatSrcDataset(dataset_type) == dataset_type = "Heat"

NoRep == [by |-> "none", batch |-> <<>>]

\* the outcome of reading or calling the attributes `attrs` of the source
\* model in turn: on None the first of them raises
Touch(model, touched, attrs) ==
    IF attrs = <<>> THEN [touched |-> touched, error |-> "none"]
    ELSE IF model = "None" THEN [touched |-> Append(touched, attrs[1]), error |-> "AttributeError"]
    ELSE [touched |-> touched \o attrs, error |-> "none"]

\* lines 237-266: the source model, or None for Heat, and the input width of A
SmConstruct ==
    /\ sm_pc = "construct"
    /\ LET model == IF sm_dataset_type # "Heat" THEN "FunctionEncoder" ELSE "None"
           attrs == IF transformation_type(sm_dataset_type) = "nonlinear"
                    THEN IF model # "None" THEN <<"n_basis">> ELSE <<>>
                    ELSE <<"n_basis">>
           t == Touch(model, sm_touched, attrs)
       IN  /\ src_model' = model
           /\ sm_touched' = t.touched
           /\ sm_error' = t.error
           /\ sm_pc' = IF t.error = "none" THEN "load" ELSE "aborted"
    /\ UNCHANGED <<sm_dataset_type, sm_sample, sm_rep, sm_search_step>>
    /\ UNCHANGED notSmVars

\* lines 297-304: load_state_dict of the checkpoints
SmLoad ==
    /\ sm_pc = "load"
    /\ LET t == Touch(src_model, sm_touched,
                      IF src_model # "None" THEN <<"load_state_dict">> ELSE <<>>)
       IN  /\ sm_touched' = t.touched
           /\ sm_error' = t.error
           /\ sm_pc' = IF t.error = "none" THEN "search" ELSE "aborted"
    /\ UNCHANGED <<sm_dataset_type, src_model, sm_sample, sm_rep, sm_search_step>>
    /\ UNCHANGED notSmVars

\* the representation of a sampled batch (lines 322-325 and 377-380)
Represent(batch) ==
    IF is_HeatSrcDataset(sm_dataset_type)
    THEN [rep |-> [by |-> "example_ys[:, 0, :]", batch |-> batch],
          t |-> Touch(src_model, sm_touched, <<>>)]
    ELSE [rep |-> [by |-> "compute_representation", batch |-> batch],
          t |-> Touch(src_model, sm_touched, <<"compute_representation">>)]

\* one iteration of the worst-case search (lines 319-338)
SmSearchStep ==
    /\ sm_pc = "search"
    /\ \E batch \in Batches :
          LET r == Represent(batch)
          IN  /\ sm_sample' = batch
              /\ sm_touched' = r.t.touched
              /\ sm_error' = r.t.error
              /\ sm_rep' = IF r.t.error = "none" THEN r.rep ELSE sm_rep
              /\ sm_search_step' = IF r.t.error = "none" THEN sm_search_step + 1
                                   ELSE sm_search_step
              /\ sm_pc' = IF r.t.error # "none" THEN "aborted"
                          ELSE IF sm_search_step + 1 = ExpSearchSteps THEN "offset"
                          ELSE "search"
    /\ UNCHANGED <<sm_dataset_type, src_model>>
    /\ UNCHANGED notSmVars

\* lines 346-356: the sample the offset loop ends with
SmOffsetSample ==
    /\ sm_pc = "offset"
    /\ \E batch \in Batches : sm_sample' = SubSeq(batch, 1, 1)
    /\ sm_pc' = "predict"
    /\ UNCHANGED <<sm_dataset_type, src_model, sm_touched, sm_rep, sm_search_step,
                   sm_error>>
    /\ UNCHANGED notSmVars

\* lines 358-383: the example predictions and the representation of the
\* offset sample
SmPredict ==
    /\ sm_pc = "predict"
    /\ LET first == Touch(src_model, sm_touched,
                          IF sm_dataset_type # "Heat" THEN <<"predict_from_examples">>
                          ELSE <<>>)
           r == Represent(sm_sample)
           second == Touch(src_model, first.touched,
                           IF is_HeatSrcDataset(sm_dataset_type) THEN <<>>
                           ELSE <<"compute_representation">>)
       IN  IF first.error # "none"
           THEN /\ sm_touched' = first.touched
                /\ sm_error' = first.error
                /\ sm_pc' = "aborted"
                /\ UNCHANGED sm_rep
           ELSE /\ sm_touched' = second.touched
                /\ sm_error' = second.error
                /\ sm_rep' = IF second.error = "none" THEN r.rep ELSE sm_rep
                /\ sm_pc' = IF second.error = "none" THEN "done" ELSE "aborted"
    /\ UNCHANGED <<sm_dataset_type, src_model, sm_sample, sm_search_step>>
    /\ UNCHANGED notSmVars

SmRest ==
    /\ src_model = "unset"
    /\ sm_touched = <<>>
    /\ sm_sample = <<>>
    /\ sm_rep = NoRep
    /\ sm_search_step = 0
    /\ sm_error = "none"

\* the exporter after the datasets were built (line 221)
SmInit ==
    /\ sm_pc = "construct"
    /\ sm_dataset_type \in SmDatasetTypes
    /\ SmRest

SmIdle ==
    /\ sm_pc = "idle"
    /\ sm_dataset_type = "Elastic"
    /\ SmRest

-----------------------------------------------------------------------------
(* Claims about the exporter's source model, checked under SpecSourceModel *)

\* C27: with the dataset type Heat the source model is None from its
\* construction on, none of its attributes is ever read or called, no run
\* ends on it, and every representation is example_ys[:, 0, :] of the batch
\* sampled last.
C27_HeatNeverTouchesSourceModel ==
    sm_dataset_type = "Heat" =>
        /\ src_model \in {"unset", "None"}
        /\ sm_pc # "construct" => src_model = "None"
        /\ sm_touched = <<>>
        /\ sm_error = "none"
        /\ sm_pc # "aborted"
        /\ sm_rep # NoRep => sm_rep.by = "example_ys[:, 0, :]"
        /\ sm_pc \in {"search", "done"} /\ sm_rep # NoRep => sm_rep.batch = sm_sample

\* C27 witness: a finished Heat run whose final representation was sliced
\* from the offset sample
C27_Witness ==
    /\ sm_dataset_type = "Heat"
    /\ sm_pc = "done"
    /\ src_model = "None"
    /\ sm_search_step = ExpSearchSteps
    /\ sm_rep = [by |-> "example_ys[:, 0, :]", batch |-> sm_sample]

\* a finished LShaped run used its source model at every one of the sites
C27_OtherTypesUseIt ==
    /\ sm_dataset_type = "LShaped"
    /\ sm_pc = "done"
    /\ sm_touched[1] = "n_basis"
    /\ sm_touched[2] = "load_state_dict"
    /\ sm_touched[Len(sm_touched)] = "compute_representation"

-----------------------------------------------------------------------------
(* Specifications *)

InitDataset == DatasetInit /\ AggIdle /\ LinIdle /\ ExpIdle /\ DrvIdle /\ HmIdle /\ VisIdle /\ DlIdle /\ RunIdle /\ OdIdle /\ AIdle /\ SmIdle
NextDataset == SampleInputs \/ ComputeOutputs
SpecDataset == InitDataset /\ [][NextDataset]_vars

InitAggregator == AggInit /\ DatasetIdle /\ LinIdle /\ ExpIdle /\ DrvIdle /\ HmIdle /\ VisIdle /\ DlIdle /\ RunIdle /\ OdIdle /\ AIdle /\ SmIdle
NextAggregator ==
    \/ AggProcessAlgorithm
    \/ AggYLimAndSave
    \/ AggExportCsv
    \/ AggNextDataset
SpecAggregator == InitAggregator /\ [][NextAggregator]_vars

InitLinearity == LinInit /\ DatasetIdle /\ AggIdle /\ ExpIdle /\ DrvIdle /\ HmIdle /\ VisIdle /\ DlIdle /\ RunIdle /\ OdIdle /\ AIdle /\ SmIdle
NextLinearity == LinSearchStep \/ LinFetchInstances \/ LinPredictAndReport \/ LinPlot
SpecLinearity == InitLinearity /\ [][NextLinearity]_vars

InitExporter == ExpInit /\ DatasetIdle /\ AggIdle /\ LinIdle /\ DrvIdle /\ HmIdle /\ VisIdle /\ DlIdle /\ RunIdle /\ OdIdle /\ AIdle /\ SmIdle
NextExporter ==
    \/ ExpSearchStep
    \/ ExpComputeOffset
    \/ ExpOffsetSample
    \/ ExpPredict
    \/ ExpMakeDirs
    \/ ExpSave
    \/ ExpPlot
SpecExporter == InitExporter /\ [][NextExporter]_vars

\* fair sampling: the search keeps iterating, and the function index the
\* offset loop looks for keeps turning up in the batches it samples whenever
\* it is an index of the test set
FairSpecExporter ==
    /\ SpecExporter
    /\ WF_vars(ExpSearchStep)
    /\ WF_vars(ExpComputeOffset)
    /\ WF_vars(ExpOffsetSampleWith(offset_index))

InitDriver == DrvInit /\ DatasetIdle /\ AggIdle /\ LinIdle /\ ExpIdle /\ HmIdle /\ VisIdle /\ DlIdle /\ RunIdle /\ OdIdle /\ AIdle /\ SmIdle
NextDriver ==
    \/ DrvValidate
    \/ DrvSelectCheckpointDirs
    \/ DrvPreflight
    \/ DrvBuildDatasets
    \/ DrvBuildModels
    \/ DrvLoadCheckpoints
SpecDriver == InitDriver /\ [][NextDriver]_vars

InitHoleMask ==
    HmInit /\ DatasetIdle /\ AggIdle /\ LinIdle /\ ExpIdle /\ DrvIdle /\ VisIdle /\ DlIdle /\ RunIdle /\ OdIdle /\ AIdle /\ SmIdle
NextHoleMask == HmMask
SpecHoleMask == InitHoleMask /\ [][NextHoleMask]_vars

InitVisualizer ==
    VisInit /\ DatasetIdle /\ AggIdle /\ LinIdle /\ ExpIdle /\ DrvIdle /\ HmIdle /\ DlIdle /\ RunIdle /\ OdIdle /\ AIdle /\ SmIdle
NextVisualizer ==
    \/ VisPlotGroundtruth
    \/ VisPlotB2B
    \/ VisPlotDeepONet
    \/ VisErrorScale
    \/ VisPlotB2BError
    \/ VisPlotDeepONetError
SpecVisualizer == InitVisualizer /\ [][NextVisualizer]_vars

InitDownloader ==
    /\ DlInit /\ DatasetIdle /\ AggIdle /\ LinIdle /\ ExpIdle /\ DrvIdle /\ HmIdle
    /\ VisIdle /\ RunIdle /\ OdIdle /\ AIdle /\ SmIdle
NextDownloader ==
    \/ DlMakeDirs
    \/ DlStartDownload
    \/ DlReport
    \/ DlReadFails
    \/ DlReturn
SpecDownloader == InitDownloader /\ [][NextDownloader]_vars

InitRuns ==
    /\ RunInit /\ DatasetIdle /\ AggIdle /\ LinIdle /\ ExpIdle /\ DrvIdle /\ HmIdle
    /\ VisIdle /\ DlIdle /\ OdIdle /\ AIdle /\ SmIdle
NextRuns ==
    \/ \E r \in Runs : RunSeed(r)
    \/ \E r \in Runs : RunBuildDatasets(r)
    \/ \E r \in Runs : RunBuildAndLoadModels(r)
    \/ \E r \in Runs : RunSearchStep(r)
SpecRuns == InitRuns /\ [][NextRuns]_vars

InitSearch1d ==
    /\ OdInit /\ DatasetIdle /\ AggIdle /\ LinIdle /\ ExpIdle /\ DrvIdle /\ HmIdle
    /\ VisIdle /\ DlIdle /\ RunIdle /\ AIdle /\ SmIdle
NextSearch1d == OdSearchStep
SpecSearch1d == InitSearch1d /\ [][NextSearch1d]_vars

InitTransformation ==
    /\ AInit /\ DatasetIdle /\ AggIdle /\ LinIdle /\ ExpIdle /\ DrvIdle /\ HmIdle
    /\ VisIdle /\ DlIdle /\ RunIdle /\ OdIdle /\ SmIdle
NextTransformation ==
    \/ ABuildFirst
    \/ ABuildHidden
    \/ ABuildLast
SpecTransformation == InitTransformation /\ [][NextTransformation]_vars

InitSourceModel ==
    /\ SmInit /\ DatasetIdle /\ AggIdle /\ LinIdle /\ ExpIdle /\ DrvIdle /\ HmIdle
    /\ VisIdle /\ DlIdle /\ RunIdle /\ OdIdle /\ AIdle
NextSourceModel ==
    \/ SmConstruct
    \/ SmLoad
    \/ SmSearchStep
    \/ SmOffsetSample
    \/ SmPredict
SpecSourceModel == InitSourceModel /\ [][NextSourceModel]_vars

====
